---- MODULE Spec2Model ----
(***************************************************************************)
(* A model of the DC/OS plugins of telegraf:                               *)
(*   - processors/dcos_metadata: the metadata cache (Apply, refresh,       *)
(*     getState, cache) with its rate-limited refresh gate;                *)
(*   - inputs/prometheus: target resolution (GetAllURLs) and the scrape    *)
(*     fan-out (Gather, gatherURL).                                        *)
(* Go strings on which the code computes (label keys, URLs) are sequences  *)
(* of one-character strings; names that are only copied are TLA+ strings.  *)
(* A nil pointer is the empty sequence, a non-nil pointer to x is <<x>>.   *)
(***************************************************************************)
EXTENDS Integers, Sequences, FiniteSets, TLC

(***************************************************************************)
(* Bounds of the model.                                                    *)
(***************************************************************************)
MaxG == 2
MaxRecords == 2
MaxRateLimit == 2
MaxTimeout == 2
MaxURLs == 2
MaxServices == 1
MaxTemplates == 2
MaxPorts == 2

Nil == <<>>
Some(x) == <<x>>
IsNil(p) == p = <<>>
Deref(p) == p[1]

(***************************************************************************)
(* Strings.                                                                *)
(***************************************************************************)
HasPrefix(s, p) == Len(s) >= Len(p) /\ SubSeq(s, 1, Len(p)) = p
TrimPrefix(s, p) == IF HasPrefix(s, p) THEN SubSeq(s, Len(p) + 1, Len(s)) ELSE s

dcosMetricsPrefix == <<"D","C","O","S","_","M","E","T","R","I","C","S","_">>
dcosMetricsLabelsWhitelist == << <<"D","C","O","S","_","S","E","R","V","I","C","E","_","N","A","M","E">> >>

K_container_id == <<"c","o","n","t","a","i","n","e","r","_","i","d">>
K_service_name == <<"s","e","r","v","i","c","e","_","n","a","m","e">>
K_executor_name == <<"e","x","e","c","u","t","o","r","_","n","a","m","e">>
K_task_name == <<"t","a","s","k","_","n","a","m","e">>
K_host == <<"h","o","s","t">>
K_FOO == <<"F","O","O">>
K_foo == <<"f","o","o">>
K_BAZ == <<"B","A","Z">>
K_OTHER == <<"O","T","H","E","R">>

(***************************************************************************)
(* Scheduler states that a GetState query can return.                      *)
(***************************************************************************)
Label(k, v) == [key |-> k, value |-> v]
ContainerID(v, parent) == [value |-> v, parent |-> parent]
Status(cs) == [containerStatus |-> cs]
ContainerStatus(cid) == [containerID |-> cid]
Task(n, fid, eid, st, ll) ==
    [name |-> n, frameworkID |-> fid, executorID |-> eid, statuses |-> st, labels |-> ll]

\* one task: container abc123, executor E, framework F, label DCOS_METRICS_FOO=bar
TaskABC ==
    Task("task", "fw1", Some("ex1"),
         << Status(Some(ContainerStatus(Some(ContainerID("abc123", Nil))))) >>,
         Some(<< Label(dcosMetricsPrefix \o K_FOO, "bar"), Label(K_OTHER, "x") >>))

\* no executor id; the first status carries no container status; a nested
\* container id; a label that is the bare prefix
TaskDEF ==
    Task("task2", "fw2", Nil,
         << Status(Nil),
            Status(Some(ContainerStatus(Some(ContainerID("def456", Some(ContainerID("parent1", Nil))))))) >>,
         Some(<< Label(dcosMetricsPrefix, "empty"), Label(dcosMetricsPrefix \o K_BAZ, "qux") >>))

\* a task whose statuses carry no container id
TaskNoCID ==
    Task("task3", "fw1", Some("ex1"), << Status(Some(ContainerStatus(Nil))) >>, Nil)

Frameworks == << [id |-> "fw1", name |-> "F"], [id |-> "fw2", name |-> "G"] >>
Executors == << [id |-> "ex1", name |-> "E"] >>

GetStateOf(gt) == [getTasks |-> gt, getFrameworks |-> Some(Frameworks), getExecutors |-> Some(Executors)]

StateEmpty == GetStateOf(Nil)
StateABC == GetStateOf(Some([launchedTasks |-> << TaskABC >>]))
StateAll == GetStateOf(Some([launchedTasks |-> << TaskDEF, TaskNoCID, TaskABC >>]))

States == { StateEmpty, StateABC, StateAll }

(***************************************************************************)
(* Responses of the operator API.                                          *)
(***************************************************************************)
Response(sendErr, decodeErr, type, gs) ==
    [sendErr |-> sendErr, decodeErr |-> decodeErr, type |-> type, getState |-> gs]

TransportError == Response(TRUE, FALSE, "UNKNOWN", Nil)
DecodeError == Response(FALSE, TRUE, "UNKNOWN", Nil)
TypeMismatch == Response(FALSE, FALSE, "GET_TASKS", Nil)
EmptyPayload == Response(FALSE, FALSE, "GET_STATE", Nil)
OkResponse(s) == Response(FALSE, FALSE, "GET_STATE", Some(s))

Responses == { TransportError, DecodeError, TypeMismatch, EmptyPayload } \cup { OkResponse(s) : s \in States }

\* processResponse: decode until EOF, then check the type.  kind tells the
\* errors apart: that of Decode, or the one of the type.  resp is not nil, and
\* the deferred Close runs on every return
processResponse(resp, t) ==
    IF resp.decodeErr THEN [err |-> TRUE, kind |-> "decode", closed |-> TRUE, r |-> resp]
    ELSE IF resp.type = t THEN [err |-> FALSE, kind |-> "", closed |-> TRUE, r |-> resp]
    ELSE [err |-> TRUE, kind |-> "type", closed |-> TRUE, r |-> resp]

\* getState: send, process, and refuse an absent payload.  When Send fails
\* there is no response, and processResponse is not called
stateOf(pr) ==
    IF pr.err THEN [err |-> TRUE, kind |-> pr.kind, closed |-> pr.closed, gs |-> Nil]
    ELSE IF IsNil(pr.r.getState)
    THEN [err |-> TRUE, kind |-> "empty", closed |-> pr.closed, gs |-> Nil]
    ELSE [err |-> FALSE, kind |-> "", closed |-> pr.closed, gs |-> pr.r.getState]

getState(resp) ==
    IF resp.sendErr THEN [err |-> TRUE, kind |-> "send", closed |-> FALSE, gs |-> Nil]
    ELSE stateOf(processResponse(resp, "GET_STATE"))

(***************************************************************************)
(* Building the container map.                                             *)
(***************************************************************************)
EmptyMap == <<>>
MapSet(m, k, v) == [x \in DOMAIN m \cup {k} |-> IF x = k THEN v ELSE m[x]]
MapGet(m, k, dflt) == IF k \in DOMAIN m THEN m[k] ELSE dflt

RECURSIVE getContainerIDFrom(_, _)
getContainerIDFrom(statuses, i) ==
    IF i > Len(statuses) THEN ""
    ELSE LET cs == statuses[i].containerStatus IN
         IF ~IsNil(cs) /\ ~IsNil(Deref(cs).containerID)
         THEN Deref(Deref(cs).containerID).value
         ELSE getContainerIDFrom(statuses, i + 1)

getContainerID(statuses) == getContainerIDFrom(statuses, 1)

RECURSIVE mapNamesFrom(_, _, _)
mapNamesFrom(items, i, results) ==
    IF i > Len(items) THEN results
    ELSE mapNamesFrom(items, i + 1, MapSet(results, items[i].id, items[i].name))

mapFrameworkNames(gf) == IF IsNil(gf) THEN EmptyMap ELSE mapNamesFrom(Deref(gf), 1, EmptyMap)
mapExecutorNames(ge) == IF IsNil(ge) THEN EmptyMap ELSE mapNamesFrom(Deref(ge), 1, EmptyMap)

InWhitelist(k) == \E i \in 1..Len(dcosMetricsLabelsWhitelist) : dcosMetricsLabelsWhitelist[i] = k

\* one iteration of the loop of mapTaskLabels
mapTaskLabel_KeepPrefix(results, l) ==
    IF HasPrefix(l.key, dcosMetricsPrefix)
    THEN IF Len(TrimPrefix(l.key, dcosMetricsPrefix)) > 0 THEN MapSet(results, l.key, l.value) ELSE results
    ELSE results

mapTaskLabel(results, l) ==
    IF HasPrefix(l.key, dcosMetricsPrefix)
    THEN LET k == TrimPrefix(l.key, dcosMetricsPrefix) IN
         IF Len(k) > 0 \/ InWhitelist(k) THEN MapSet(results, k, l.value) ELSE results
    ELSE results

RECURSIVE mapTaskLabelsFrom(_, _, _)
mapTaskLabelsFrom(ll, i, results) ==
    IF i > Len(ll) THEN results
    ELSE mapTaskLabelsFrom(ll, i + 1, mapTaskLabel(results, ll[i]))

mapTaskLabels(labels) == IF IsNil(labels) THEN EmptyMap ELSE mapTaskLabelsFrom(Deref(labels), 1, EmptyMap)

containerInfo(cid, t, eName, fName) ==
    [containerID |-> cid, taskName |-> t.name, executorName |-> eName,
     frameworkName |-> fName, taskLabels |-> mapTaskLabels(t.labels)]

\* one iteration of the loop of cache() over the launched tasks
cacheTask(m, t, gs) ==
    LET cid == getContainerID(t.statuses)
        eName == IF IsNil(t.executorID) THEN ""
                 ELSE MapGet(mapExecutorNames(gs.getExecutors), Deref(t.executorID), "")
        fName == MapGet(mapFrameworkNames(gs.getFrameworks), t.frameworkID, "")
    IN  IF cid # "" THEN MapSet(m, cid, containerInfo(cid, t, eName, fName))
        ELSE m

launchedTasks(gs) == IF IsNil(gs.getTasks) THEN <<>> ELSE Deref(gs.getTasks).launchedTasks

RECURSIVE cacheFrom(_, _, _)
cacheFrom(gs, i, m) ==
    IF i > Len(launchedTasks(gs)) THEN m
    ELSE cacheFrom(gs, i + 1, cacheTask(m, launchedTasks(gs)[i], gs))

\* the map that a complete run of cache() on gs builds
cacheResult(gs) == cacheFrom(gs, 1, EmptyMap)


(***************************************************************************)
(* Metrics.                                                                *)
(***************************************************************************)
Metric(n, tags) == [name |-> n, tags |-> tags]

\* metric.AddTag: set the tag, replacing the value of an existing key
AddTag(m, k, v) == [m EXCEPT !.tags = MapSet(m.tags, k, v)]

RECURSIVE AddTags(_, _)
AddTags(m, kv) ==
    IF DOMAIN kv = {} THEN m
    ELSE LET k == CHOOSE x \in DOMAIN kv : TRUE IN
         AddTags(AddTag(m, k, kv[k]), [x \in DOMAIN kv \ {k} |-> kv[x]])

M_plain == Metric("test", (K_host :> "h1"))
M_abc == Metric("test", (K_container_id :> "abc123") @@ (K_host :> "h1"))
M_def == Metric("test", (K_container_id :> "def456") @@ (K_executor_name :> "old"))

Metrics == { M_plain, M_abc, M_def }

RECURSIVE SeqsUpTo(_, _)
SeqsUpTo(S, n) ==
    IF n = 0 THEN { <<>> }
    ELSE LET shorter == SeqsUpTo(S, n - 1) IN
         shorter \cup { Append(q, x) : q \in { r \in shorter : Len(r) = n - 1 }, x \in S }

Inputs == SeqsUpTo(Metrics, MaxRecords)

(***************************************************************************)
(* State.                                                                  *)
(***************************************************************************)
VARIABLES
    rateLimit,      \* dm.RateLimit, in ticks
    timeout,        \* dm.Timeout, in ticks
    containers,     \* dm.containers
    mu,             \* dm.mu: 0 when free, else the goroutine holding it
    client,         \* dm.client # nil
    onceDone,       \* dm.once: the gate is closed
    onceLocked,     \* dm.once: the function given to Do is running
    timer,          \* ticks left of the sleep before once.Reset(), -1: no sleeper
    gr,             \* the goroutines started by `go dm.refresh(...)`
    applyPc,        \* position of the Apply call
    applyIn,        \* the records Apply was given
    applyOut,       \* the records as Apply has changed them so far
    applyIdx,       \* index of the next record of the loop of Apply
    unknown,        \* Apply's set of unrecognised container ids
    stale,          \* Apply's stale flag
    sinceRun,       \* history: ticks since the function given to Do last began
    sinceQuery,     \* history: ticks since GetState was last sent
    lastGap,        \* history: ticks between the last two GetState queries
    lastOutcome,    \* history: how the last run of the body of refresh ended
    winAge,         \* history: ticks since the first trigger of the current interval
    winTriggers,    \* history: triggers of the current interval (counted to 2)
    winQueries,     \* history: GetState queries sent by them
    winFirstArmed,  \* history: the first of them found the gate armed
    winFirstOK      \* history: ... and its getClient succeeded

mvars == << rateLimit, timeout, containers, mu, client, onceDone, onceLocked,
            timer, gr, applyPc, applyIn, applyOut, applyIdx, unknown, stale,
            sinceRun, sinceQuery, lastGap, lastOutcome,
            winAge, winTriggers, winQueries, winFirstArmed, winFirstOK >>

VARIABLES
    URLs,               \* p.URLs
    KubernetesServices, \* p.KubernetesServices
    MesosAgentUrl,      \* p.MesosAgentUrl
    mesosHostname,      \* p.mesosHostname, set by Start
    httpClient,         \* p.client # nil
    gatherPc,           \* position of the Gather call
    gatherResult,       \* what the last Gather returned: "none" while it runs
    lastResolve,        \* history: the last result of GetAllURLs, with the answers it got
    allURLs,            \* allURLs of Gather
    urlHeap,            \* the url.URL objects the targets point to
    fetchPc,            \* position of the gatherURL goroutine of each target
    requested,          \* history: the requests of this cycle, counted per URL string
    accumulator         \* what the fetches of this cycle gave the accumulator

pvars == << URLs, KubernetesServices, MesosAgentUrl, mesosHostname, httpClient, gatherPc,
            gatherResult, lastResolve, allURLs, urlHeap, fetchPc, requested, accumulator >>

VARIABLES
    applied,            \* history: the last application of a function of discovery
    containersStatsd,   \* ds.containers of the statsd registry
    lastAdd             \* history: the last AddContainer call, and what it returned

fvars == << applied >>
rvars == << containersStatsd, lastAdd >>

vars == << mvars, pvars, fvars, rvars >>

\* what a step of the processor, and of the input, leaves alone
notMeta == << pvars, fvars, rvars >>
notProm == << mvars, fvars, rvars >>

G == 1..MaxG

\* pc: position; elapsed: ticks the query has been out; gs: the state fetched;
\* local: the map cache() is building; i: index of its loop; ok and before are
\* history: getState returned no error, and dm.containers when cache() began
Idle == [pc |-> "none", elapsed |-> 0, gs |-> Nil, local |-> EmptyMap, i |-> 0,
         ok |-> FALSE, before |-> EmptyMap]

InBody(g) == gr[g].pc \notin { "none", "spawned" }

MetaInit ==
    /\ rateLimit \in 1..MaxRateLimit
    /\ timeout \in 1..MaxTimeout
    /\ containers = EmptyMap
    /\ mu = 0
    /\ client = FALSE
    /\ onceDone = FALSE
    /\ onceLocked = FALSE
    /\ timer = -1
    /\ gr = [g \in G |-> Idle]
    /\ applyPc = "idle"
    /\ applyIn = <<>>
    /\ applyOut = <<>>
    /\ applyIdx = 0
    /\ unknown = {}
    /\ stale = FALSE
    /\ sinceRun = -1
    /\ sinceQuery = -1
    /\ lastGap = -1
    /\ lastOutcome = "none"
    /\ winAge = -1
    /\ winTriggers = 0
    /\ winQueries = 0
    /\ winFirstArmed = FALSE
    /\ winFirstOK = FALSE


(***************************************************************************)
(* The gate dm.once.                                                       *)
(***************************************************************************)
\* once.Do(f) runs f only while the gate is armed
OnceArmed == ~onceDone

\* once.Reset() takes effect once the function given to Do has returned
OnceResetReady == ~onceLocked

\* the `dm.once.Do(func() {` that wraps the body of refresh
refreshGate_Open == TRUE
refreshGate == OnceArmed

\* the `time.Sleep(dm.RateLimit.Duration)` before once.Reset()
SleepDuration_Short == rateLimit - 1
SleepDuration == rateLimit

(***************************************************************************)
(* History of the triggers, kept for the rate-limit properties. Ages are    *)
(* counted in ticks up to rateLimit (-1: never happened): an interval of    *)
(* length rateLimit that began with a trigger is over at age rateLimit.     *)
(***************************************************************************)
NewWindow == winAge = -1 \/ winAge >= rateLimit
Min2(n) == IF n > 2 THEN 2 ELSE n

NoteTrigger(armed, clientOK, sent) ==
    /\ winAge' = IF NewWindow THEN 0 ELSE winAge
    /\ winTriggers' = Min2((IF NewWindow THEN 0 ELSE winTriggers) + 1)
    /\ winQueries' = Min2((IF NewWindow THEN 0 ELSE winQueries) + (IF sent THEN 1 ELSE 0))
    /\ winFirstArmed' = IF NewWindow THEN armed ELSE winFirstArmed
    /\ winFirstOK' = IF NewWindow THEN armed /\ clientOK ELSE winFirstOK

Older(age) == IF age = -1 \/ age >= rateLimit THEN age ELSE age + 1

hvars == << sinceRun, sinceQuery, lastGap, lastOutcome,
           winAge, winTriggers, winQueries, winFirstArmed, winFirstOK >>
applyVars == << applyPc, applyIn, applyOut, applyIdx, unknown, stale >>
config == << rateLimit, timeout >>

(***************************************************************************)
(* Apply.                                                                  *)
(***************************************************************************)
FreeG == { g \in G : gr[g].pc = "none" }

\* Apply is called with the records `in`
ApplyBegin(in) ==
    /\ applyPc \in { "idle", "returned" }
    /\ FreeG # {}
    /\ applyPc' = "loop"
    /\ applyIn' = in
    /\ applyOut' = in
    /\ applyIdx' = 1
    /\ unknown' = {}
    /\ stale' = FALSE
    /\ UNCHANGED << config, containers, mu, client, onceDone, onceLocked, timer, gr, hvars >>

\* the tags Apply adds to a record whose container is cached as c
enrich_AlwaysExecutor(metric, c) ==
    LET m1 == AddTags(metric, c.taskLabels)
        m2 == AddTag(m1, K_service_name, c.frameworkName)
        m3 == AddTag(m2, K_executor_name, c.executorName)
    IN  AddTag(m3, K_task_name, c.taskName)

enrich(metric, c) ==
    LET m1 == AddTags(metric, c.taskLabels)
        m2 == AddTag(m1, K_service_name, c.frameworkName)
        m3 == IF c.executorName # "" THEN AddTag(m2, K_executor_name, c.executorName) ELSE m2
    IN  AddTag(m3, K_task_name, c.taskName)

\* one iteration of the loop of Apply over its records
ApplyRecord ==
    /\ applyPc = "loop"
    /\ applyIdx <= Len(applyIn)
    /\ LET metric == applyOut[applyIdx] IN
       IF K_container_id \in DOMAIN metric.tags
       THEN LET cid == metric.tags[K_container_id] IN
            IF cid \in DOMAIN containers
            THEN /\ applyOut' = [applyOut EXCEPT ![applyIdx] = enrich(metric, containers[cid])]
                 /\ UNCHANGED << unknown, stale >>
            ELSE /\ unknown' = unknown \cup { cid }
                 /\ stale' = TRUE
                 /\ UNCHANGED applyOut
       ELSE UNCHANGED << applyOut, unknown, stale >>
    /\ applyIdx' = applyIdx + 1
    /\ UNCHANGED << applyPc, applyIn >>
    /\ UNCHANGED << config, containers, mu, client, onceDone, onceLocked, timer, gr, hvars >>

\* the end of Apply: `go dm.refresh(cids...)` if stale, then return
ApplyEnd_Sync ==
    /\ applyPc = "loop"
    /\ applyIdx > Len(applyIn)
    /\ stale => ~onceLocked
    /\ IF stale
       THEN LET g == CHOOSE x \in FreeG : \A y \in FreeG : x <= y IN
            gr' = [gr EXCEPT ![g] = [Idle EXCEPT !.pc = "spawned"]]
       ELSE UNCHANGED gr
    /\ applyPc' = "returned"
    /\ UNCHANGED << applyIn, applyOut, applyIdx, unknown, stale >>
    /\ UNCHANGED << config, containers, mu, client, onceDone, onceLocked, timer, hvars >>

\* an Apply that starts refresh at the end of every call
ApplyEnd_AlwaysRefresh ==
    /\ applyPc = "loop"
    /\ applyIdx > Len(applyIn)
    /\ LET g == CHOOSE x \in FreeG : \A y \in FreeG : x <= y IN
       gr' = [gr EXCEPT ![g] = [Idle EXCEPT !.pc = "spawned"]]
    /\ applyPc' = "returned"
    /\ UNCHANGED << applyIn, applyOut, applyIdx, unknown, stale >>
    /\ UNCHANGED << config, containers, mu, client, onceDone, onceLocked, timer, hvars >>

ApplyEnd ==
    /\ applyPc = "loop"
    /\ applyIdx > Len(applyIn)
    /\ IF stale
       THEN LET g == CHOOSE x \in FreeG : \A y \in FreeG : x <= y IN
            gr' = [gr EXCEPT ![g] = [Idle EXCEPT !.pc = "spawned"]]
       ELSE UNCHANGED gr
    /\ applyPc' = "returned"
    /\ UNCHANGED << applyIn, applyOut, applyIdx, unknown, stale >>
    /\ UNCHANGED << config, containers, mu, client, onceDone, onceLocked, timer, hvars >>


(***************************************************************************)
(* refresh.                                                                *)
(***************************************************************************)
\* refresh() finds the gate closed: once.Do returns without running the body
RefreshAbsorbed(g) ==
    /\ gr[g].pc = "spawned"
    /\ ~refreshGate
    /\ gr' = [gr EXCEPT ![g] = Idle]
    /\ NoteTrigger(FALSE, FALSE, FALSE)
    /\ UNCHANGED << sinceRun, sinceQuery, lastGap, lastOutcome >>
    /\ UNCHANGED << config, containers, mu, client, onceDone, onceLocked, timer, applyVars >>

\* refresh() passes the gate, starts the sleeper, gets the client and sends GetState
RefreshStart(g) ==
    /\ gr[g].pc = "spawned"
    /\ refreshGate
    /\ onceDone' = TRUE
    /\ onceLocked' = TRUE
    /\ timer' = SleepDuration
    /\ client' = TRUE
    /\ gr' = [gr EXCEPT ![g] = [Idle EXCEPT !.pc = "waiting"]]
    /\ sinceRun' = 0
    /\ sinceQuery' = 0
    /\ lastGap' = sinceQuery
    /\ NoteTrigger(OnceArmed, TRUE, TRUE)
    /\ UNCHANGED lastOutcome
    /\ UNCHANGED << config, containers, mu, applyVars >>

\* refresh() passes the gate and starts the sleeper, but getClient fails
RefreshClientError(g) ==
    /\ gr[g].pc = "spawned"
    /\ refreshGate
    /\ ~client
    /\ onceDone' = TRUE
    /\ timer' = SleepDuration
    /\ gr' = [gr EXCEPT ![g] = Idle]
    /\ sinceRun' = 0
    /\ lastOutcome' = "clientError"
    /\ NoteTrigger(OnceArmed, FALSE, FALSE)
    /\ UNCHANGED << sinceQuery, lastGap >>
    /\ UNCHANGED << config, containers, mu, client, onceLocked, applyVars >>

\* getState returns: on an error the body of refresh logs and returns
RefreshReceive_NoReturn(g, resp) ==
    /\ gr[g].pc = "waiting"
    /\ gr[g].elapsed < timeout \/ resp = TransportError
    /\ LET r == getState(resp) IN
       /\ gr' = [gr EXCEPT ![g].pc = "cacheLock",
                           ![g].ok = ~r.err,
                           ![g].gs = IF r.err THEN Some(StateEmpty) ELSE r.gs]
       /\ lastOutcome' = IF r.err THEN "getStateError" ELSE lastOutcome
    /\ UNCHANGED onceLocked
    /\ UNCHANGED << sinceRun, sinceQuery, lastGap, winAge, winTriggers, winQueries, winFirstArmed, winFirstOK >>
    /\ UNCHANGED << config, containers, mu, client, onceDone, timer, applyVars >>

RefreshReceive(g, resp) ==
    /\ gr[g].pc = "waiting"
    /\ gr[g].elapsed < timeout \/ resp = TransportError
    /\ LET r == getState(resp) IN
       IF r.err
       THEN /\ gr' = [gr EXCEPT ![g] = Idle]
            /\ onceLocked' = FALSE
            /\ lastOutcome' = "getStateError"
       ELSE /\ gr' = [gr EXCEPT ![g].pc = "cacheLock", ![g].gs = r.gs, ![g].ok = TRUE]
            /\ UNCHANGED << onceLocked, lastOutcome >>
    /\ UNCHANGED << sinceRun, sinceQuery, lastGap, winAge, winTriggers, winQueries, winFirstArmed, winFirstOK >>
    /\ UNCHANGED << config, containers, mu, client, onceDone, timer, applyVars >>

(***************************************************************************)
(* cache.                                                                  *)
(***************************************************************************)
\* a cache() that fills the map in use instead of a new one
CacheLock_Merge(g) ==
    /\ gr[g].pc = "cacheLock"
    /\ mu = 0
    /\ mu' = g
    /\ gr' = [gr EXCEPT ![g].pc = IF IsNil(Deref(gr[g].gs).getTasks) THEN "cacheEmpty" ELSE "cacheLoop",
                        ![g].local = containers,
                        ![g].i = 1,
                        ![g].before = containers]
    /\ UNCHANGED << config, containers, client, onceDone, onceLocked, timer, applyVars, hvars >>

\* dm.mu.Lock(); containers := map[string]containerInfo{}
CacheLock(g) ==
    /\ gr[g].pc = "cacheLock"
    /\ mu = 0
    /\ mu' = g
    /\ gr' = [gr EXCEPT ![g].pc = IF IsNil(Deref(gr[g].gs).getTasks) THEN "cacheEmpty" ELSE "cacheLoop",
                        ![g].local = EmptyMap,
                        ![g].i = 1,
                        ![g].before = containers]
    /\ UNCHANGED << config, containers, client, onceDone, onceLocked, timer, applyVars, hvars >>

\* one iteration of the loop over the launched tasks, into the local map
CacheTask_InPlace(g) ==
    /\ gr[g].pc = "cacheLoop"
    /\ gr[g].i <= Len(launchedTasks(Deref(gr[g].gs)))
    /\ containers' = cacheTask(IF gr[g].i = 1 THEN EmptyMap ELSE containers,
                               launchedTasks(Deref(gr[g].gs))[gr[g].i], Deref(gr[g].gs))
    /\ gr' = [gr EXCEPT ![g].local = containers', ![g].i = gr[g].i + 1]
    /\ UNCHANGED << config, mu, client, onceDone, onceLocked, timer, applyVars, hvars >>

CacheTask(g) ==
    /\ gr[g].pc = "cacheLoop"
    /\ gr[g].i <= Len(launchedTasks(Deref(gr[g].gs)))
    /\ gr' = [gr EXCEPT ![g].local = cacheTask(gr[g].local,
                                               launchedTasks(Deref(gr[g].gs))[gr[g].i],
                                               Deref(gr[g].gs)),
                        ![g].i = gr[g].i + 1]
    /\ UNCHANGED << config, containers, mu, client, onceDone, onceLocked, timer, applyVars, hvars >>

\* dm.containers = containers
CacheSwap(g) ==
    /\ \/ gr[g].pc = "cacheEmpty"
       \/ gr[g].pc = "cacheLoop" /\ gr[g].i > Len(launchedTasks(Deref(gr[g].gs)))
    /\ containers' = gr[g].local
    /\ gr' = [gr EXCEPT ![g].pc = "cacheUnlock"]
    /\ lastOutcome' = "cached"
    /\ UNCHANGED << sinceRun, sinceQuery, lastGap, winAge, winTriggers, winQueries, winFirstArmed, winFirstOK >>
    /\ UNCHANGED << config, mu, client, onceDone, onceLocked, timer, applyVars >>

\* the deferred dm.mu.Unlock(); cache and the body of refresh return
CacheUnlock(g) ==
    /\ gr[g].pc = "cacheUnlock"
    /\ mu' = 0
    /\ gr' = [gr EXCEPT ![g] = Idle]
    /\ onceLocked' = FALSE
    /\ UNCHANGED << config, containers, client, onceDone, timer, applyVars, hvars >>

(***************************************************************************)
(* The sleeper started by refresh, and the clock.                          *)
(***************************************************************************)
\* the sleeper that wakes up and returns without dm.once.Reset()
TimerReset_NoReset ==
    /\ timer = 0
    /\ OnceResetReady
    /\ timer' = -1
    /\ UNCHANGED << config, containers, mu, client, onceDone, onceLocked, gr, applyVars, hvars >>

\* the sleep is over: dm.once.Reset()
TimerReset ==
    /\ timer = 0
    /\ OnceResetReady
    /\ onceDone' = FALSE
    /\ timer' = -1
    /\ UNCHANGED << config, containers, mu, client, onceLocked, gr, applyVars, hvars >>

\* One tick. Computation takes no time: the clock waits for a goroutine that
\* is neither idle nor waiting for the agent, for a running Apply and for a
\* due Reset; a query is answered or timed out before its deadline passes.
Tick ==
    /\ applyPc # "loop"
    /\ \A g \in G : gr[g].pc \in { "none", "waiting" }
    /\ \A g \in G : gr[g].pc = "waiting" => gr[g].elapsed < timeout
    /\ ~(timer = 0 /\ OnceResetReady)
    /\ timer' = IF timer > 0 THEN timer - 1 ELSE timer
    /\ gr' = [g \in G |-> IF gr[g].pc = "waiting"
                          THEN [gr[g] EXCEPT !.elapsed = gr[g].elapsed + 1]
                          ELSE gr[g]]
    /\ sinceRun' = Older(sinceRun)
    /\ sinceQuery' = Older(sinceQuery)
    /\ winAge' = Older(winAge)
    /\ UNCHANGED << lastGap, lastOutcome, winTriggers, winQueries, winFirstArmed, winFirstOK >>
    /\ UNCHANGED << config, containers, mu, client, onceDone, onceLocked, applyVars >>

MetaNext ==
    \/ \E in \in Inputs : ApplyBegin(in) /\ UNCHANGED notMeta
    \/ ApplyRecord /\ UNCHANGED notMeta
    \/ ApplyEnd /\ UNCHANGED notMeta
    \/ \E g \in G : RefreshAbsorbed(g) /\ UNCHANGED notMeta
    \/ \E g \in G : RefreshStart(g) /\ UNCHANGED notMeta
    \/ \E g \in G : RefreshClientError(g) /\ UNCHANGED notMeta
    \/ \E g \in G, resp \in Responses : RefreshReceive(g, resp) /\ UNCHANGED notMeta
    \/ \E g \in G : CacheLock(g) /\ UNCHANGED notMeta
    \/ \E g \in G : CacheTask(g) /\ UNCHANGED notMeta
    \/ \E g \in G : CacheSwap(g) /\ UNCHANGED notMeta
    \/ \E g \in G : CacheUnlock(g) /\ UNCHANGED notMeta
    \/ TimerReset /\ UNCHANGED notMeta
    \/ Tick /\ UNCHANGED notMeta

(***************************************************************************)
(* inputs/prometheus: strings and net/url as GetAllURLs and gatherURL use  *)
(* them.  The URLs of the model are written with letters, digits and the   *)
(* characters : / @ ? . - only: nothing needs escaping, there is no        *)
(* fragment and no IPv6 literal.                                           *)
(***************************************************************************)
LowerCase == <<"a","b","c","d","e","f","g","h","i","j","k","l","m","n","o","p","q","r","s","t","u","v","w","x","y","z">>
UpperCase == <<"A","B","C","D","E","F","G","H","I","J","K","L","M","N","O","P","Q","R","S","T","U","V","W","X","Y","Z">>
Digits == <<"0","1","2","3","4","5","6","7","8","9">>

Range(s) == { s[i] : i \in DOMAIN s }
Take(s, n) == SubSeq(s, 1, n)
Drop(s, n) == SubSeq(s, n + 1, Len(s))

\* strings.Index for a one-character pattern: 0 stands for Go's -1
Index(s, c) ==
    IF c \in Range(s)
    THEN CHOOSE i \in DOMAIN s : s[i] = c /\ \A j \in 1..(i - 1) : s[j] # c
    ELSE 0

LastIndex(s, c) ==
    IF c \in Range(s)
    THEN CHOOSE i \in DOMAIN s : s[i] = c /\ \A j \in (i + 1)..Len(s) : s[j] # c
    ELSE 0

Letters == Range(LowerCase) \cup Range(UpperCase)
UpperLetters == Range(UpperCase)
DigitChars == Range(Digits)

ToLowerChar(c) ==
    IF c \in UpperLetters THEN LowerCase[Index(UpperCase, c)] ELSE c

ToLower(s) == [i \in DOMAIN s |-> ToLowerChar(s[i])]

IsLetter(c) == c \in Letters
IsDigit(c) == c \in DigitChars

\* strconv.Itoa of a natural number
RECURSIVE Itoa(_)
Itoa(n) ==
    IF n < 10 THEN << Digits[n + 1] >>
    ELSE Append(Itoa(n \div 10), Digits[(n % 10) + 1])

RECURSIVE digitsValue(_, _)
digitsValue(s, acc) ==
    IF s = <<>> THEN acc
    ELSE digitsValue(Tail(s), 10 * acc + (Index(Digits, Head(s)) - 1))

\* strconv.Atoi: an optional sign, then at least one digit and only digits
Atoi(s) ==
    LET signed == s # <<>> /\ Head(s) \in {"+", "-"}
        body == IF signed THEN Tail(s) ELSE s
    IN  IF body = <<>> \/ \E i \in DOMAIN body : ~IsDigit(body[i])
        THEN [err |-> TRUE, n |-> 0]
        ELSE [err |-> FALSE,
              n |-> IF signed /\ Head(s) = "-" THEN 0 - digitsValue(body, 0)
                    ELSE digitsValue(body, 0)]

\* url.URL, with the fields an URL of the model can fill
URLOf(scheme, opaque, user, host, path, forceQuery, rawQuery) ==
    [Scheme |-> scheme, Opaque |-> opaque, User |-> user, Host |-> host,
     Path |-> path, ForceQuery |-> forceQuery, RawQuery |-> rawQuery]

\* getscheme of net/url: (scheme, rest), or an error for a leading colon; it
\* stops at the first character that is no letter and, unless it is the first
\* character, no digit, plus, minus or dot
schemeStops(rawurl) ==
    { i \in DOMAIN rawurl :
        ~IsLetter(rawurl[i]) /\
        ~((IsDigit(rawurl[i]) \/ rawurl[i] \in {"+", "-", "."}) /\ i # 1) }

Least(S) == CHOOSE x \in S : \A y \in S : x <= y

schemeAt(rawurl, i) ==
    IF rawurl[i] = ":"
    THEN IF i = 1 THEN [err |-> TRUE, scheme |-> <<>>, rest |-> <<>>]
         ELSE [err |-> FALSE, scheme |-> Take(rawurl, i - 1), rest |-> Drop(rawurl, i)]
    ELSE [err |-> FALSE, scheme |-> <<>>, rest |-> rawurl]

schemeFrom(rawurl, stops) ==
    IF stops = {} THEN [err |-> FALSE, scheme |-> <<>>, rest |-> rawurl]
    ELSE schemeAt(rawurl, Least(stops))

getscheme(rawurl) == schemeFrom(rawurl, schemeStops(rawurl))

\* split of net/url at the first c; cutc drops the separator
split(s, c, cutc) ==
    LET i == Index(s, c) IN
    IF i = 0 THEN << s, <<>> >>
    ELSE IF cutc THEN << Take(s, i - 1), Drop(s, i) >>
    ELSE << Take(s, i - 1), Drop(s, i - 1) >>

\* validOptionalPort of net/url: empty, or a colon followed by digits
validOptionalPort(port) ==
    port = <<>> \/ (Head(port) = ":" /\ \A i \in 2..Len(port) : IsDigit(port[i]))

\* parseHost of net/url: what follows the last colon is an optional port
hostPortOK(host) ==
    LastIndex(host, ":") = 0 \/ validOptionalPort(Drop(host, LastIndex(host, ":") - 1))

\* parseAuthority of net/url: [user@]host[:port], i the place of the last @
authorityAt(authority, i) ==
    [err |-> ~hostPortOK(Drop(authority, i)),
     user |-> IF i = 0 THEN Nil ELSE Some(Take(authority, i - 1)),
     host |-> Drop(authority, i)]

parseAuthority(authority) == authorityAt(authority, LastIndex(authority, "@"))

BadURL == [err |-> TRUE, url |-> Nil]
GoodURL(u) == [err |-> FALSE, url |-> Some(u)]

\* parse of net/url after the authority is parsed
parseHostURL(scheme, force, rawQuery, auth, path) ==
    IF auth.err THEN BadURL
    ELSE GoodURL(URLOf(scheme, <<>>, auth.user, auth.host, path, force, rawQuery))

\* a is the split of what follows the two slashes at its first slash
parseSlashes(scheme, force, rawQuery, a) ==
    parseHostURL(scheme, force, rawQuery, parseAuthority(a[1]), a[2])

\* parse of net/url after the query is cut off
parseRest(scheme, force, rest, rawQuery) ==
    IF ~HasPrefix(rest, <<"/">>) /\ scheme # <<>>
    THEN GoodURL(URLOf(scheme, rest, Nil, <<>>, <<>>, force, rawQuery))
    ELSE IF ~HasPrefix(rest, <<"/">>) /\ Index(rest, ":") > 0
              /\ (Index(rest, "/") = 0 \/ Index(rest, ":") < Index(rest, "/"))
    THEN BadURL
    ELSE IF (scheme # <<>> \/ ~HasPrefix(rest, <<"/", "/", "/">>)) /\ HasPrefix(rest, <<"/", "/">>)
    THEN parseSlashes(scheme, force, rawQuery, split(Drop(rest, 2), "/", FALSE))
    ELSE GoodURL(URLOf(scheme, <<>>, Nil, <<>>, rest, force, rawQuery))

\* q is the split of rest at its first question mark
parseQuery(scheme, rest, q) ==
    IF rest # <<>> /\ rest[Len(rest)] = "?"
          /\ Cardinality({ i \in DOMAIN rest : rest[i] = "?" }) = 1
    THEN parseRest(scheme, TRUE, Take(rest, Len(rest) - 1), <<>>)
    ELSE parseRest(scheme, FALSE, q[1], q[2])

parseScheme(s) ==
    IF s.err THEN BadURL ELSE parseQuery(ToLower(s.scheme), s.rest, split(s.rest, "?", TRUE))

\* url.Parse
url_Parse(rawurl) == parseScheme(getscheme(rawurl))

\* URL.String
URL_String(u) ==
    LET schemePart == IF u.Scheme # <<>> THEN u.Scheme \o <<":">> ELSE <<>>
        authority ==
            IF u.Scheme # <<>> \/ u.Host # <<>> \/ ~IsNil(u.User)
            THEN (IF u.Host # <<>> \/ u.Path # <<>> \/ ~IsNil(u.User) THEN <<"/", "/">> ELSE <<>>)
                 \o (IF ~IsNil(u.User) THEN Deref(u.User) \o <<"@">> ELSE <<>>)
                 \o u.Host
            ELSE <<>>
        lead == IF u.Path # <<>> /\ Head(u.Path) # "/" /\ u.Host # <<>> THEN <<"/">> ELSE <<>>
        dot == IF schemePart \o authority \o lead = <<>> /\ Index(u.Path, ":") > 0 /\
                  (Index(u.Path, "/") = 0 \/ Index(u.Path, ":") < Index(u.Path, "/"))
               THEN <<".", "/">> ELSE <<>>
        body == IF u.Opaque # <<>> THEN u.Opaque ELSE authority \o lead \o dot \o u.Path
        query == IF u.ForceQuery \/ u.RawQuery # <<>> THEN <<"?">> \o u.RawQuery ELSE <<>>
    IN  schemePart \o body \o query

\* URL.Hostname and URL.Port: the host without, and the part after, its last colon
URL_Hostname(u) ==
    IF LastIndex(u.Host, ":") > 0 /\ hostPortOK(u.Host)
    THEN Take(u.Host, LastIndex(u.Host, ":") - 1) ELSE u.Host

URL_Port(u) ==
    IF LastIndex(u.Host, ":") > 0 /\ hostPortOK(u.Host)
    THEN Drop(u.Host, LastIndex(u.Host, ":")) ELSE <<>>

(***************************************************************************)
(* inputs/prometheus: the tasks of the agent and the endpoints they        *)
(* advertise.  Label keys and values are character sequences.              *)
(***************************************************************************)
S_http == <<"h","t","t","p">>
S_metrics == <<"/","m","e","t","r","i","c","s">>
S_prometheus == <<"p","r","o","m","e","t","h","e","u","s">>
S_host == <<"h","o","s","t">>
S_container == <<"c","o","n","t","a","i","n","e","r">>
L_FORMAT == <<"D","C","O","S","_","M","E","T","R","I","C","S","_","F","O","R","M","A","T">>
L_ENDPOINT == <<"D","C","O","S","_","M","E","T","R","I","C","S","_","E","N","D","P","O","I","N","T">>
L_PORT_INDEX == <<"D","C","O","S","_","M","E","T","R","I","C","S","_","P","O","R","T","_","I","N","D","E","X">>
L_PORT_NAME == <<"D","C","O","S","_","M","E","T","R","I","C","S","_","P","O","R","T","_","N","A","M","E">>
L_network_scope == <<"n","e","t","w","o","r","k","-","s","c","o","p","e">>

Port(number, name, labels) == [number |-> number, name |-> name, labels |-> labels]
PortRange(b, e) == [begin |-> b, end |-> e]
Resource(name, ranges, scalar) == [name |-> name, ranges |-> ranges, scalar |-> scalar]
NetworkInfo(ips, hostPorts) == [ipAddresses |-> ips, portMappings |-> hostPorts]
ContainerStatusNI(cid, nis) == [containerID |-> cid, networkInfos |-> nis]
ContainerInfo(nis, docker) == [networkInfos |-> nis, docker |-> docker]
AgentTask(id, st, ll, ports, res, c) ==
    [taskID |-> id, statuses |-> st, labels |-> ll, discovery |-> ports,
     resources |-> res, container |-> c]

\* simplifyLabels: the labels as a map, a later label replacing an earlier one
RECURSIVE simplifyLabelsFrom(_, _, _)
simplifyLabelsFrom(ls, i, results) ==
    IF i > Len(ls) THEN results
    ELSE simplifyLabelsFrom(ls, i + 1, MapSet(results, ls[i].key, ls[i].value))

simplifyLabels(ll) ==
    IF IsNil(ll) THEN EmptyMap ELSE simplifyLabelsFrom(Deref(ll), 1, EmptyMap)

\* getPortsFromTask: discovery is nil, or holds a ports list that is nil or a list
getPortsFromTask(t) ==
    IF IsNil(t.discovery) THEN <<>>
    ELSE IF IsNil(Deref(t.discovery)) THEN <<>>
    ELSE Deref(Deref(t.discovery))

\* isHostPort: the network-scope label decides; without it the port is a host
\* port when a ports resource, or a port mapping of a status, of the container
\* or of docker, names its number
isHostPort_MappingFirst(p, t) ==
    \/ MapGet(simplifyLabels(p.labels), L_network_scope, <<>>) = S_host
    \/ /\ L_network_scope \notin DOMAIN simplifyLabels(p.labels)
       /\ \E r \in Range(t.resources) :
             /\ r.name = "ports"
             /\ \E pr \in Range(r.ranges) : pr.begin <= p.number /\ pr.end >= p.number
    \/ \E s \in Range(t.statuses) :
          /\ ~IsNil(s.containerStatus)
          /\ \E ni \in Range(Deref(s.containerStatus).networkInfos) :
                p.number \in Range(ni.portMappings)
    \/ /\ ~IsNil(t.container)
       /\ \/ \E ni \in Range(Deref(t.container).networkInfos) :
                 p.number \in Range(ni.portMappings)
          \/ /\ ~IsNil(Deref(t.container).docker)
             /\ p.number \in Range(Deref(Deref(t.container).docker))

isHostPort(p, t) ==
    LET portLabels == simplifyLabels(p.labels) IN
    IF L_network_scope \in DOMAIN portLabels
    THEN portLabels[L_network_scope] = S_host
    ELSE \/ \E r \in Range(t.resources) :
              /\ r.name = "ports"
              /\ \/ \E pr \in Range(r.ranges) : pr.begin <= p.number /\ pr.end >= p.number
                 \/ r.scalar = p.number
         \/ \E s \in Range(t.statuses) :
              /\ ~IsNil(s.containerStatus)
              /\ \E ni \in Range(Deref(s.containerStatus).networkInfos) :
                    p.number \in Range(ni.portMappings)
         \/ /\ ~IsNil(t.container)
            /\ \/ \E ni \in Range(Deref(t.container).networkInfos) :
                      p.number \in Range(ni.portMappings)
               \/ /\ ~IsNil(Deref(t.container).docker)
                  /\ p.number \in Range(Deref(Deref(t.container).docker))

\* getTaskIP: the first address of the first network of the last status
getTaskIP(statuses) ==
    IF Len(statuses) = 0 THEN [err |-> TRUE, ip |-> <<>>]
    ELSE LET cs == statuses[Len(statuses)].containerStatus IN
         IF ~IsNil(cs) /\ Len(Deref(cs).networkInfos) > 0
               /\ Len(Deref(cs).networkInfos[1].ipAddresses) > 0
         THEN [err |-> FALSE, ip |-> Deref(cs).networkInfos[1].ipAddresses[1]]
         ELSE [err |-> TRUE, ip |-> <<>>]

hostnameOr(taskIP, nodeHostname) ==
    IF taskIP.err THEN [err |-> TRUE, hostname |-> nodeHostname]
    ELSE [err |-> FALSE, hostname |-> taskIP.ip]

getHostnameForPort(p, t, nodeHostname) ==
    IF ~isHostPort(p, t) THEN hostnameOr(getTaskIP(t.statuses), nodeHostname)
    ELSE [err |-> FALSE, hostname |-> nodeHostname]

\* fmt.Sprintf("http://%s:%d%s", hostname, number, route)
endpointOf(hostname, number, route) ==
    S_http \o <<":", "/", "/">> \o hostname \o <<":">> \o Itoa(number) \o route

routeOf(labels) ==
    IF MapGet(labels, L_ENDPOINT, <<>>) # <<>> THEN labels[L_ENDPOINT] ELSE S_metrics

\* one iteration of the loop of getEndpointsFromTaskPorts: the endpoint of a
\* port labelled for prometheus whose hostname is found, h being that hostname
portEndpoint_Unlabelled(p, portLabels, h) ==
    IF ~h.err
    THEN << endpointOf(h.hostname, p.number, routeOf(portLabels)) >>
    ELSE <<>>

portEndpoint(p, portLabels, h) ==
    IF MapGet(portLabels, L_FORMAT, <<>>) = S_prometheus /\ ~h.err
    THEN << endpointOf(h.hostname, p.number, routeOf(portLabels)) >>
    ELSE <<>>

RECURSIVE endpointsFromPorts(_, _, _, _)
endpointsFromPorts(taskPorts, i, t, nodeHostname) ==
    IF i > Len(taskPorts) THEN <<>>
    ELSE portEndpoint(taskPorts[i], simplifyLabels(taskPorts[i].labels),
                      getHostnameForPort(taskPorts[i], t, nodeHostname))
         \o endpointsFromPorts(taskPorts, i + 1, t, nodeHostname)

getEndpointsFromTaskPorts(t, nodeHostname) ==
    endpointsFromPorts(getPortsFromTask(t), 1, t, nodeHostname)

\* the loop of getEndpointFromTaskLabels over the ports: the last port of
\* that name, or the zero port
RECURSIVE portNamed(_, _, _, _)
portNamed(taskPorts, i, portName, port) ==
    IF i > Len(taskPorts) THEN port
    ELSE portNamed(taskPorts, i + 1, portName,
                   IF Deref(taskPorts[i].name) = portName THEN taskPorts[i] ELSE port)

NoEndpoint == [ok |-> FALSE, endpoint |-> <<>>, panic |-> FALSE]

\* `*taskPort.Name` of a port without name: a nil pointer dereference, the
\* function does not return
Panicked == [ok |-> FALSE, endpoint |-> <<>>, panic |-> TRUE]
derefsNilName(taskPorts) == \E i \in DOMAIN taskPorts : IsNil(taskPorts[i].name)

\* the end of getEndpointFromTaskLabels, h being the hostname for the port
labelEndpoint(port, taskLabels, h) ==
    IF h.err THEN NoEndpoint
    ELSE [ok |-> TRUE, endpoint |-> endpointOf(h.hostname, port.number, routeOf(taskLabels)),
          panic |-> FALSE]

\* the port by DCOS_METRICS_PORT_NAME, port being what the loop found
endpointByName(t, nodeHostname, taskLabels, port) ==
    IF port.number = 0 THEN NoEndpoint
    ELSE labelEndpoint(port, taskLabels, getHostnameForPort(port, t, nodeHostname))

endpointByIndex_Fallback(t, nodeHostname, taskPorts, taskLabels, index) ==
    IF index.err \/ index.n < 0 \/ index.n >= Len(taskPorts)
    THEN endpointByName(t, nodeHostname, taskLabels,
                        portNamed(taskPorts, 1, MapGet(taskLabels, L_PORT_NAME, <<>>),
                                  Port(0, Nil, Nil)))
    ELSE labelEndpoint(taskPorts[index.n + 1], taskLabels,
                       getHostnameForPort(taskPorts[index.n + 1], t, nodeHostname))

\* the port by DCOS_METRICS_PORT_INDEX, index being what Atoi made of it
endpointByIndex(t, nodeHostname, taskPorts, taskLabels, index) ==
    IF index.err \/ index.n < 0 \/ index.n >= Len(taskPorts) THEN NoEndpoint
    ELSE labelEndpoint(taskPorts[index.n + 1], taskLabels,
                       getHostnameForPort(taskPorts[index.n + 1], t, nodeHostname))

endpointFromLabels(t, nodeHostname, taskPorts, taskLabels) ==
    IF MapGet(taskLabels, L_FORMAT, <<>>) # S_prometheus THEN NoEndpoint
    ELSE IF Len(MapGet(taskLabels, L_PORT_INDEX, <<>>)) = 0
              /\ Len(MapGet(taskLabels, L_PORT_NAME, <<>>)) = 0 THEN NoEndpoint
    ELSE IF Len(MapGet(taskLabels, L_PORT_INDEX, <<>>)) > 0
    THEN endpointByIndex(t, nodeHostname, taskPorts, taskLabels,
                         Atoi(MapGet(taskLabels, L_PORT_INDEX, <<>>)))
    ELSE IF derefsNilName(taskPorts) THEN Panicked
    ELSE endpointByName(t, nodeHostname, taskLabels,
                        portNamed(taskPorts, 1, MapGet(taskLabels, L_PORT_NAME, <<>>),
                                  Port(0, Nil, Nil)))

getEndpointFromTaskLabels(t, nodeHostname) ==
    endpointFromLabels(t, nodeHostname, getPortsFromTask(t), simplifyLabels(t.labels))

\* getContainerIDs: the id, and its parent's, of the first status that has one
RECURSIVE getContainerIDsFrom(_, _)
getContainerIDsFrom(statuses, i) ==
    IF i > Len(statuses) THEN [containerID |-> "", parentContainerID |-> ""]
    ELSE LET cs == statuses[i].containerStatus IN
         IF ~IsNil(cs) /\ ~IsNil(Deref(cs).containerID)
         THEN LET cid == Deref(Deref(cs).containerID) IN
              [containerID |-> cid.value,
               parentContainerID |-> IF IsNil(cid.parent) THEN "" ELSE Deref(cid.parent).value]
         ELSE getContainerIDsFrom(statuses, i + 1)

getContainerIDs(statuses) == getContainerIDsFrom(statuses, 1)

\* makeURLAndAddress: the endpoint parsed, tagged with the task's container id;
\* url is the URL object to allocate, used for URL and for OriginalURL
taggedURL_Parent(task, r) ==
    [err |-> r.err, url |-> r.url,
     Tags |-> (K_container_id :>
                 IF getContainerIDs(task.statuses).parentContainerID # ""
                 THEN getContainerIDs(task.statuses).parentContainerID
                 ELSE getContainerIDs(task.statuses).containerID)]

taggedURL(task, r) ==
    [err |-> r.err, url |-> r.url,
     Tags |-> (K_container_id :> getContainerIDs(task.statuses).containerID)]

makeURLAndAddress(task, endpoint) == taggedURL(task, url_Parse(endpoint))

\* `if err != nil { continue }; results = append(results, uat)`
appendUnlessErr(uat) == IF uat.err THEN <<>> ELSE << uat >>

RECURSIVE makeAll(_, _, _)
makeAll(task, endpoints, i) ==
    IF i > Len(endpoints) THEN <<>>
    ELSE appendUnlessErr(makeURLAndAddress(task, endpoints[i])) \o makeAll(task, endpoints, i + 1)

fromTaskLabels(t, found) ==
    IF found.ok THEN appendUnlessErr(makeURLAndAddress(t, found.endpoint)) ELSE <<>>

\* getMesosTaskPrometheusURLs: per task the port endpoints, then the label endpoint
RECURSIVE mesosURLsFrom(_, _, _)
mesosURLsFrom(tasks, i, hostname) ==
    IF i > Len(tasks) THEN <<>>
    ELSE makeAll(tasks[i], getEndpointsFromTaskPorts(tasks[i], hostname), 1)
         \o fromTaskLabels(tasks[i], getEndpointFromTaskLabels(tasks[i], hostname))
         \o mesosURLsFrom(tasks, i + 1, hostname)

getMesosTaskPrometheusURLs(tasks, hostname) == mesosURLsFrom(tasks, 1, hostname)

\* the call does not return: getEndpointFromTaskLabels panics for some task
discoveryPanics(tasks, hostname) ==
    \E i \in DOMAIN tasks : getEndpointFromTaskLabels(tasks[i], hostname).panic

\* the answers of the agent to GetTasks
TasksResponse(sendErr, decodeErr, type, gt) ==
    [sendErr |-> sendErr, decodeErr |-> decodeErr, type |-> type, getTasks |-> gt]

\* processResponse of the prometheus input
prom_processResponse(resp, t) ==
    IF resp.decodeErr THEN [err |-> TRUE, kind |-> "decode", closed |-> TRUE, r |-> resp]
    ELSE IF resp.type = t THEN [err |-> FALSE, kind |-> "", closed |-> TRUE, r |-> resp]
    ELSE [err |-> TRUE, kind |-> "type", closed |-> TRUE, r |-> resp]

\* getTasks: send, process, and refuse an absent payload
tasksOf_EmptySuccess(r) ==
    IF r.err THEN [err |-> TRUE, kind |-> r.kind, closed |-> r.closed, gt |-> Nil]
    ELSE IF IsNil(r.r.getTasks)
    THEN [err |-> FALSE, kind |-> "", closed |-> r.closed, gt |-> Some(<<>>)]
    ELSE [err |-> FALSE, kind |-> "", closed |-> r.closed, gt |-> r.r.getTasks]

tasksOf(r) ==
    IF r.err THEN [err |-> TRUE, kind |-> r.kind, closed |-> r.closed, gt |-> Nil]
    ELSE IF IsNil(r.r.getTasks)
    THEN [err |-> TRUE, kind |-> "empty", closed |-> r.closed, gt |-> Nil]
    ELSE [err |-> FALSE, kind |-> "", closed |-> r.closed, gt |-> r.r.getTasks]

getTasks(resp) ==
    IF resp.sendErr THEN [err |-> TRUE, kind |-> "send", closed |-> FALSE, gt |-> Nil]
    ELSE tasksOf(prom_processResponse(resp, "GET_TASKS"))

\* getMesosHostname: the host of the agent URL without its port
hostnameOfHost(host) ==
    [err |-> (IF ":" \in Range(host) THEN Take(host, LastIndex(host, ":") - 1) ELSE host) = <<>>,
     hostname |-> IF ":" \in Range(host) THEN Take(host, LastIndex(host, ":") - 1) ELSE host]

hostnameOfURL(r) ==
    IF r.err THEN [err |-> TRUE, hostname |-> <<>>] ELSE hostnameOfHost(Deref(r.url).Host)

getMesosHostname(mesosAgentUrl) == hostnameOfURL(url_Parse(mesosAgentUrl))

(***************************************************************************)
(* inputs/prometheus: GetAllURLs.  URL objects live in a heap (a sequence  *)
(* of url.URL values); a *url.URL is an index into it, so that a target    *)
(* whose OriginalURL and URL are one object, and targets that share one    *)
(* OriginalURL, are told apart from targets with equal but separate URLs.  *)
(* MonitorPods is off: p.kubernetesPods stays the empty map of init, and   *)
(* the loop over it adds nothing.                                          *)
(***************************************************************************)
URLAndAddress(orig, url, address, tags) ==
    [OriginalURL |-> orig, URL |-> url, Address |-> address, Tags |-> tags]

\* the result of GetAllURLs while it is built: err, the map, and the heap
NoURLs == [err |-> FALSE, nilMap |-> FALSE, all |-> EmptyMap, heap |-> <<>>]

\* AddressToURL: the template with its host replaced by address[:port]
AddressToURL(u, address) ==
    LET host == IF URL_Port(u) # <<>> THEN address \o <<":">> \o URL_Port(u) ELSE address IN
    URLOf(u.Scheme, u.Opaque, u.User, host, u.Path, u.ForceQuery, u.RawQuery)

\* `return nil, err`
failed(acc) == [acc EXCEPT !.err = TRUE, !.nilMap = TRUE, !.all = EmptyMap]

\* a url.URL is made: it is the last object of the heap
alloc(acc, u) == [acc EXCEPT !.heap = Append(acc.heap, u)]

\* allURLs[URL.String()] = URLAndAddress{URL: URL, OriginalURL: URL}, with the
\* tags of a task's target, for the last object of the heap
putOwn(acc, tags) ==
    [acc EXCEPT !.all = MapSet(acc.all, URL_String(acc.heap[Len(acc.heap)]),
                               URLAndAddress(Len(acc.heap), Len(acc.heap), <<>>, tags))]

\* allURLs[serviceURL.String()] = URLAndAddress{URL: serviceURL, Address:
\* resolved, OriginalURL: URL}, serviceURL being the last object of the heap
putService_NoAddress(acc, URL, resolved) ==
    [acc EXCEPT !.all = MapSet(acc.all, URL_String(acc.heap[Len(acc.heap)]),
                               URLAndAddress(URL, Len(acc.heap), <<>>, EmptyMap))]

putService(acc, URL, resolved) ==
    [acc EXCEPT !.all = MapSet(acc.all, URL_String(acc.heap[Len(acc.heap)]),
                               URLAndAddress(URL, Len(acc.heap), resolved, EmptyMap))]

\* one iteration of the loop over p.URLs, r being what url.Parse returned
staticParsed_Strict(acc, r) ==
    IF r.err \/ acc.err THEN failed(acc) ELSE putOwn(alloc(acc, Deref(r.url)), EmptyMap)

staticParsed(acc, r) ==
    IF r.err THEN acc ELSE putOwn(alloc(acc, Deref(r.url)), EmptyMap)

staticURL_Strict(acc, u) == staticParsed_Strict(acc, url_Parse(u))

staticURL(acc, u) == staticParsed(acc, url_Parse(u))

RECURSIVE staticURLs(_, _, _)
staticURLs(us, i, acc) ==
    IF i > Len(us) THEN acc
    ELSE staticURLs(us, i + 1, staticURL(acc, us[i]))

\* the loop over the addresses a service resolved to; URL is its template
RECURSIVE resolvedURLs(_, _, _, _)
resolvedURLs(URL, resolvedAddresses, j, acc) ==
    IF j > Len(resolvedAddresses) THEN acc
    ELSE resolvedURLs(URL, resolvedAddresses, j + 1,
             putService(alloc(acc, AddressToURL(acc.heap[URL], resolvedAddresses[j])),
                        URL, resolvedAddresses[j]))

\* the loop over p.KubernetesServices; lookup is what net.LookupHost answers
RECURSIVE serviceURLs(_, _, _, _)

\* the service is parsed and its template is the last object of the heap
serviceLookedUp(services, i, lookup, acc, answer) ==
    IF answer.err THEN serviceURLs(services, i + 1, lookup, acc)
    ELSE serviceURLs(services, i + 1, lookup,
                     resolvedURLs(Len(acc.heap), answer.addrs, 1, acc))

serviceParsed(services, i, lookup, acc, r) ==
    IF r.err THEN failed(acc)
    ELSE serviceLookedUp(services, i, lookup, alloc(acc, Deref(r.url)),
                         lookup[URL_Hostname(Deref(r.url))])

serviceURLs(services, i, lookup, acc) ==
    IF i > Len(services) THEN acc
    ELSE serviceParsed(services, i, lookup, acc, url_Parse(services[i]))

\* the loop over the targets of getMesosTaskPrometheusURLs
RECURSIVE mesosURLs(_, _, _)
mesosURLs(urls, i, acc) ==
    IF i > Len(urls) THEN acc
    ELSE mesosURLs(urls, i + 1, putOwn(alloc(acc, Deref(urls[i].url)), urls[i].Tags))

\* the mesos part of GetAllURLs, tasks being what getTasks returned
withTasks(acc, tasks, hostname) ==
    IF tasks.err THEN [acc EXCEPT !.err = TRUE]
    ELSE mesosURLs(getMesosTaskPrometheusURLs(Deref(tasks.gt), hostname), 1, acc)

withMesos(acc, agentUrl, hostname, resp) ==
    IF acc.err \/ agentUrl = <<>> THEN acc ELSE withTasks(acc, getTasks(resp), hostname)

\* GetAllURLs: static URLs, then the services, then the tasks of the agent
GetAllURLs(urls, services, agentUrl, hostname, lookup, resp) ==
    withMesos(serviceURLs(services, 1, lookup, staticURLs(urls, 1, NoURLs)),
              agentUrl, hostname, resp)

(***************************************************************************)
(* inputs/prometheus: the configurations and the environment of the model. *)
(***************************************************************************)
S_node == <<"1","0",".","0",".","0",".","1">>
S_node2 == <<"1","0",".","0",".","0",".","2">>
S_taskIP == <<"9",".","0",".","0",".","7">>
S_svc == <<"s","v","c">>
K_url == <<"u","r","l">>
K_address == <<"a","d","d","r","e","s","s">>

\* urls: "http://10.0.0.1:91", "http://10.0.0.1:91/metrics", and "10.0.0.1:91",
\* which url.Parse refuses
U_bare == <<"h","t","t","p",":","/","/","1","0",".","0",".","0",".","1",":","9","1">>
U_path == <<"h","t","t","p",":","/","/","1","0",".","0",".","0",".","1",":","9","1","/","m","e","t","r","i","c","s">>
U_noScheme == <<"1","0",".","0",".","0",".","1",":","9","1">>
StaticCandidates == { U_bare, U_path, U_noScheme }

\* kubernetes_services: "http://svc:91/metrics", "http://u@svc:91" with a user
\* and without a path, and "http://svc:x", which url.Parse refuses
Svc_web == <<"h","t","t","p",":","/","/","s","v","c",":","9","1","/","m","e","t","r","i","c","s">>
Svc_user == <<"h","t","t","p",":","/","/","u","@","s","v","c",":","9","1">>
Svc_badPort == <<"h","t","t","p",":","/","/","s","v","c",":","x">>
ServiceCandidates == { Svc_web, Svc_user, Svc_badPort }

\* mesos_agent_url: "http://10.0.0.1:5051"
AgentURL == <<"h","t","t","p",":","/","/","1","0",".","0",".","0",".","1",":","5","0","5","1">>

\* what net.LookupHost can answer for the host of a service
LookupAnswer(err, addrs) == [err |-> err, addrs |-> addrs]
LookupAnswers ==
    { LookupAnswer(TRUE, <<>>), LookupAnswer(FALSE, << S_node >>),
      LookupAnswer(FALSE, << S_node, S_node2 >>) }
Lookups == [{ S_svc } -> LookupAnswers]

\* the answers Gather can get: none is drawn for a question it does not ask
LookupsFor(services) ==
    IF services = <<>> THEN { [h \in { S_svc } |-> LookupAnswer(TRUE, <<>>)] } ELSE Lookups

\* a task with the host port 91 labelled for prometheus: http://10.0.0.1:91/metrics
TaskHostPort ==
    AgentTask("t1",
        << Status(Some(ContainerStatusNI(Some(ContainerID("abc123", Nil)), <<>>))) >>,
        Nil,
        Some(Some(<< Port(91, Some(<<"w","e","b">>), Some(<< Label(L_FORMAT, S_prometheus) >>)) >>)),
        << Resource("ports", << PortRange(91, 91) >>, 0) >>,
        Nil)

\* a task that names its container port 92 by index: http://9.0.0.7:92/metrics
TaskByIndex ==
    AgentTask("t2",
        << Status(Some(ContainerStatusNI(Some(ContainerID("def456", Some(ContainerID("parent1", Nil)))),
                                         << NetworkInfo(<< S_taskIP >>, <<>>) >>))) >>,
        Some(<< Label(L_FORMAT, S_prometheus), Label(L_PORT_INDEX, <<"0">>) >>),
        Some(Some(<< Port(92, Some(<<"m">>), Some(<< Label(L_network_scope, S_container) >>)) >>)),
        <<>>,
        Nil)

OkTasks(tasks) == TasksResponse(FALSE, FALSE, "GET_TASKS", Some(tasks))
AgentResponses ==
    { TasksResponse(TRUE, FALSE, "UNKNOWN", Nil), TasksResponse(FALSE, TRUE, "UNKNOWN", Nil),
      TasksResponse(FALSE, FALSE, "GET_STATE", Nil), TasksResponse(FALSE, FALSE, "GET_TASKS", Nil),
      OkTasks(<< TaskHostPort >>), OkTasks(<< TaskByIndex, TaskHostPort >>) }
ResponsesFor(agentUrl) ==
    IF agentUrl = <<>> THEN { TasksResponse(TRUE, FALSE, "UNKNOWN", Nil) } ELSE AgentResponses

\* what a scrape can come to: a failure (transport, status, body or parse), or
\* a body with one metric
FetchOutcomes == { "fail", "metric" }

(***************************************************************************)
(* inputs/prometheus: Gather and gatherURL.  The configured URLs are not   *)
(* unix sockets and bearer_token is not set.                               *)
(***************************************************************************)
\* the input after Start, before the first Gather
PromIdle ==
    /\ mesosHostname = IF MesosAgentUrl = <<>> THEN <<>>
                       ELSE getMesosHostname(MesosAgentUrl).hostname
    /\ httpClient = FALSE
    /\ gatherPc = "idle"
    /\ gatherResult = "none"
    /\ lastResolve = Nil
    /\ allURLs = EmptyMap
    /\ urlHeap = <<>>
    /\ fetchPc = EmptyMap
    /\ requested = EmptyMap
    /\ accumulator = [metrics |-> {}, errors |-> {}]

PromInit ==
    /\ URLs \in SeqsUpTo(StaticCandidates, MaxURLs)
    /\ KubernetesServices \in SeqsUpTo(ServiceCandidates, MaxServices)
    /\ MesosAgentUrl \in { <<>>, AgentURL }
    /\ PromIdle

pconfig == << URLs, KubernetesServices, MesosAgentUrl, mesosHostname >>

\* Gather: createHTTPClient fails, and Gather returns its error
GatherClientError ==
    /\ gatherPc = "idle"
    /\ ~httpClient
    /\ gatherResult' = "err"
    /\ UNCHANGED << pconfig, httpClient, gatherPc, lastResolve, allURLs, urlHeap,
                    fetchPc, requested, accumulator >>

\* Gather up to the start of the fetches: the client, GetAllURLs, and one
\* goroutine per target; an error of GetAllURLs ends the cycle.  r is what
\* GetAllURLs returned
GatherResolved(r, lookup, resp) ==
    /\ gatherPc = "idle"
    /\ httpClient' = TRUE
    /\ lastResolve' = Some([result |-> r, lookup |-> lookup, resp |-> resp])
    /\ requested' = EmptyMap
    /\ accumulator' = [metrics |-> {}, errors |-> {}]
    /\ IF r.err
       THEN /\ gatherResult' = "err"
            /\ allURLs' = EmptyMap
            /\ urlHeap' = <<>>
            /\ fetchPc' = EmptyMap
            /\ UNCHANGED gatherPc
       ELSE /\ gatherResult' = "none"
            /\ allURLs' = r.all
            /\ urlHeap' = r.heap
            /\ fetchPc' = [k \in DOMAIN r.all |-> "start"]
            /\ gatherPc' = "fetching"
    /\ UNCHANGED pconfig

GatherBegin(lookup, resp) ==
    GatherResolved(GetAllURLs(URLs, KubernetesServices, MesosAgentUrl, mesosHostname, lookup, resp),
                   lookup, resp)

\* `if u.URL.Path == "" { u.URL.Path = "/metrics" }`
defaultPath(heap, URL) ==
    IF heap[URL].Path = <<>> THEN [heap EXCEPT ![URL].Path = S_metrics] ELSE heap

\* the request is counted
count(requests, req) == MapSet(requests, req, MapGet(requests, req, 0) + 1)

\* gatherURL up to the request: an empty path becomes /metrics, in the URL
\* object itself, and the request goes to u.URL.String()
FetchRequest(k) ==
    /\ gatherPc = "fetching"
    /\ k \in DOMAIN fetchPc
    /\ fetchPc[k] = "start"
    /\ urlHeap' = defaultPath(urlHeap, allURLs[k].URL)
    /\ requested' = count(requested, URL_String(defaultPath(urlHeap, allURLs[k].URL)[allURLs[k].URL]))
    /\ fetchPc' = [fetchPc EXCEPT ![k] = "requested"]
    /\ UNCHANGED << pconfig, httpClient, gatherPc, gatherResult, lastResolve, allURLs, accumulator >>

\* the tags gatherURL gives a metric: url, address if there is one, then u.Tags
urlTags(u, url) ==
    IF u.Address # <<>> THEN (K_url :> url) @@ (K_address :> u.Address) ELSE (K_url :> url)

scrapeTags_ResolvedURL(u, heap) == u.Tags @@ urlTags(u, URL_String(heap[u.URL]))

scrapeTags(u, heap) == u.Tags @@ urlTags(u, URL_String(heap[u.OriginalURL]))

\* `u.OriginalURL.User = nil`
stripUser(heap, OriginalURL) == [heap EXCEPT ![OriginalURL].User = Nil]

\* gatherURL from the response on: an error goes to the accumulator; a metric
\* has the user cleared in u.OriginalURL and is added with its tags
FetchRespond(k, outcome) ==
    /\ gatherPc = "fetching"
    /\ k \in DOMAIN fetchPc
    /\ fetchPc[k] = "requested"
    /\ IF outcome = "fail"
       THEN /\ accumulator' = [accumulator EXCEPT !.errors = @ \cup { k }]
            /\ UNCHANGED urlHeap
       ELSE /\ urlHeap' = stripUser(urlHeap, allURLs[k].OriginalURL)
            /\ accumulator' = [accumulator EXCEPT !.metrics =
                    @ \cup { scrapeTags(allURLs[k], stripUser(urlHeap, allURLs[k].OriginalURL)) }]
    /\ fetchPc' = [fetchPc EXCEPT ![k] = "done"]
    /\ UNCHANGED << pconfig, httpClient, gatherPc, gatherResult, lastResolve, allURLs, requested >>

\* wg.Wait() returns when every fetch is done, and Gather returns nil; what the
\* cycle held goes with it
GatherReturn_Early ==
    /\ gatherPc = "fetching"
    /\ \E k \in DOMAIN fetchPc : fetchPc[k] = "done"
    /\ gatherPc' = "idle"
    /\ gatherResult' = "ok"
    /\ lastResolve' = Nil
    /\ allURLs' = EmptyMap
    /\ urlHeap' = <<>>
    /\ fetchPc' = EmptyMap
    /\ requested' = EmptyMap
    /\ accumulator' = [metrics |-> {}, errors |-> {}]
    /\ UNCHANGED << pconfig, httpClient >>

GatherReturn ==
    /\ gatherPc = "fetching"
    /\ \A k \in DOMAIN fetchPc : fetchPc[k] = "done"
    /\ gatherPc' = "idle"
    /\ gatherResult' = "ok"
    /\ lastResolve' = Nil
    /\ allURLs' = EmptyMap
    /\ urlHeap' = <<>>
    /\ fetchPc' = EmptyMap
    /\ requested' = EmptyMap
    /\ accumulator' = [metrics |-> {}, errors |-> {}]
    /\ UNCHANGED << pconfig, httpClient >>

PromNext ==
    \/ GatherClientError /\ UNCHANGED notProm
    \/ \E lookup \in LookupsFor(KubernetesServices), resp \in ResponsesFor(MesosAgentUrl) : GatherBegin(lookup, resp) /\ UNCHANGED notProm
    \/ \E k \in DOMAIN fetchPc : FetchRequest(k) /\ UNCHANGED notProm
    \/ \E k \in DOMAIN fetchPc, outcome \in FetchOutcomes : FetchRespond(k, outcome) /\ UNCHANGED notProm
    \/ GatherReturn /\ UNCHANGED notProm

(***************************************************************************)
(* inputs/prometheus: GetAllURLs alone, applied to configurations with up  *)
(* to MaxTemplates services on two hosts.                                  *)
(***************************************************************************)
S_alt == <<"a","l","t">>

\* kubernetes_services: "http://alt/m?x", a template with a query and no port
Svc_alt == <<"h","t","t","p",":","/","/","a","l","t","/","m","?","x">>

ResolveStatic == { U_path, U_noScheme }
ResolveServices == { Svc_web, Svc_alt, Svc_badPort }
AltAnswers == { LookupAnswer(TRUE, <<>>), LookupAnswer(FALSE, << S_node2 >>) }
ResolveLookups ==
    { [h \in { S_svc, S_alt } |-> IF h = S_svc THEN a ELSE b] : a \in LookupAnswers, b \in AltAnswers }
ResolveResponses(agentUrl) ==
    IF agentUrl = <<>> THEN { TasksResponse(TRUE, FALSE, "UNKNOWN", Nil) }
    ELSE { TasksResponse(TRUE, FALSE, "UNKNOWN", Nil), OkTasks(<< TaskHostPort >>) }

ResolveInit ==
    /\ URLs \in SeqsUpTo(ResolveStatic, MaxURLs)
    /\ KubernetesServices \in SeqsUpTo(ResolveServices, MaxTemplates)
    /\ MesosAgentUrl \in { <<>>, AgentURL }
    /\ PromIdle

\* a call of GetAllURLs with the answers of the resolver and of the agent
Resolve(lookup, resp) ==
    /\ lastResolve' =
          Some([result |-> GetAllURLs(URLs, KubernetesServices, MesosAgentUrl, mesosHostname, lookup, resp),
                lookup |-> lookup, resp |-> resp])
    /\ UNCHANGED << pconfig, httpClient, gatherPc, gatherResult, allURLs, urlHeap,
                    fetchPc, requested, accumulator >>

ResolveNext ==
    \E lookup \in ResolveLookups, resp \in ResolveResponses(MesosAgentUrl) :
        Resolve(lookup, resp) /\ UNCHANGED notProm

(***************************************************************************)
(* inputs/prometheus: the discovery of the endpoints of one task, applied  *)
(* to tasks put together from a few ports, statuses, labels, resources and *)
(* containers.  Port 91 is the one the resources and the port mappings     *)
(* name.  Every port has a name.                                           *)
(***************************************************************************)
N_web == <<"w","e","b">>
N_adm == <<"a","d","m">>

\* 91 "web", labelled for prometheus, without network-scope
P_web == Port(91, Some(N_web), Some(<< Label(L_FORMAT, S_prometheus) >>))
\* 92 "m", labelled, of the container, with the route /x
P_route ==
    Port(92, Some(<<"m">>),
         Some(<< Label(L_FORMAT, S_prometheus), Label(L_network_scope, S_container),
                 Label(L_ENDPOINT, <<"/","x">>) >>))
\* 91 "adm", of the host by its label, not labelled for prometheus
P_adm == Port(91, Some(N_adm), Some(<< Label(L_network_scope, S_host) >>))
\* 91 "web", labelled, of the container by its label
P_scoped ==
    Port(91, Some(N_web),
         Some(<< Label(L_FORMAT, S_prometheus), Label(L_network_scope, S_container) >>))
\* 93 "bad", labelled, of the host, with the route x: http://10.0.0.1:93x
P_badRoute ==
    Port(93, Some(<<"b","a","d">>),
         Some(<< Label(L_FORMAT, S_prometheus), Label(L_network_scope, S_host),
                 Label(L_ENDPOINT, <<"x">>) >>))
PortCandidates == { P_web, P_route, P_adm, P_scoped, P_badRoute }

\* no status; one status with a container id and no address; a status without
\* container status, then one of a nested container with an address; two
\* statuses with container ids, the first with the pod's mapping of port 91
StatusCandidates ==
    { <<>>,
      << Status(Some(ContainerStatusNI(Some(ContainerID("abc123", Nil)), <<>>))) >>,
      << Status(Nil),
         Status(Some(ContainerStatusNI(Some(ContainerID("def456", Some(ContainerID("parent1", Nil)))),
                                       << NetworkInfo(<< S_taskIP >>, <<>>) >>))) >>,
      << Status(Some(ContainerStatusNI(Some(ContainerID("abc123", Nil)),
                                       << NetworkInfo(<<>>, << 91 >>) >>))),
         Status(Some(ContainerStatusNI(Some(ContainerID("xyz789", Some(ContainerID("parent1", Nil)))),
                                       << NetworkInfo(<< S_taskIP, S_node2 >>, <<>>) >>))) >> }

TaskLabelsOf(index, name) ==
    Some(<< Label(L_FORMAT, S_prometheus), Label(L_PORT_INDEX, index), Label(L_PORT_NAME, name) >>)

\* no labels; index 0 and a route; index 1 beside a name; index 5, x and -1
\* beside a name that a port has; a name alone, matched and not; an index
\* without the format label
TaskLabelCandidates ==
    { Nil,
      Some(<< Label(L_FORMAT, S_prometheus), Label(L_PORT_INDEX, <<"0">>),
              Label(L_ENDPOINT, <<"/","e">>) >>),
      TaskLabelsOf(<<"1">>, N_adm),
      TaskLabelsOf(<<"5">>, N_web),
      TaskLabelsOf(<<"x">>, N_web),
      TaskLabelsOf(<<"-","1">>, N_web),
      TaskLabelsOf(<<>>, N_web),
      Some(<< Label(L_FORMAT, S_prometheus), Label(L_PORT_NAME, <<"z","z">>) >>),
      Some(<< Label(L_PORT_INDEX, <<"0">>) >>) }

ResourceCandidates ==
    { <<>>,
      << Resource("cpus", <<>>, 91), Resource("ports", << PortRange(90, 91) >>, 0) >>,
      << Resource("ports", <<>>, 91) >> }

ContainerCandidates ==
    { Nil,
      Some(ContainerInfo(<< NetworkInfo(<<>>, << 91 >>) >>, Nil)),
      Some(ContainerInfo(<<>>, Some(<< 91 >>))) }

\* tasks that differ in what makes a port a host port, and tasks that differ
\* in their labels
Tasks ==
    { AgentTask("t", st, Nil, Some(Some(ports)), res, Nil) :
        st \in StatusCandidates, ports \in SeqsUpTo(PortCandidates, MaxPorts),
        res \in ResourceCandidates }
    \cup
    { AgentTask("t", st, Nil, Some(Some(ports)), <<>>, c) :
        st \in StatusCandidates, ports \in SeqsUpTo(PortCandidates, MaxPorts),
        c \in ContainerCandidates }
    \cup
    { AgentTask("t", st, ll, Some(Some(ports)), <<>>, Nil) :
        st \in StatusCandidates, ll \in TaskLabelCandidates,
        ports \in SeqsUpTo(PortCandidates, MaxPorts) }

\* the hostname of each port of the task
hostnamesOf(t, nodeHostname) ==
    [i \in DOMAIN getPortsFromTask(t) |-> getHostnameForPort(getPortsFromTask(t)[i], t, nodeHostname)]

\* a call of getMesosTaskPrometheusURLs with the one task t, on the node
\* 10.0.0.1; what the functions it calls returned is kept with its result
Discover(t) ==
    /\ IsNil(applied)
    /\ applied' = Some([op |-> "getMesosTaskPrometheusURLs",
                        task |-> t,
                        hostnames |-> hostnamesOf(t, S_node),
                        fromPorts |-> getEndpointsFromTaskPorts(t, S_node),
                        fromLabels |-> getEndpointFromTaskLabels(t, S_node),
                        urls |-> getMesosTaskPrometheusURLs(<< t >>, S_node)])

\* 94, without name, labelled, of the host
P_anon == Port(94, Nil, Some(<< Label(L_FORMAT, S_prometheus), Label(L_network_scope, S_host) >>))
\* 95 "h", labelled, of the host
P_host == Port(95, Some(<<"h">>), Some(<< Label(L_FORMAT, S_prometheus), Label(L_network_scope, S_host) >>))

NameOnly(name) == Some(<< Label(L_FORMAT, S_prometheus), Label(L_PORT_NAME, name) >>)
StatusABC == << Status(Some(ContainerStatusNI(Some(ContainerID("abc123", Nil)), <<>>))) >>
TaskOf(id, st, ll, ports) == AgentTask(id, st, ll, Some(Some(ports)), <<>>, Nil)

\* tasks with one endpoint that fails and a host port that does not: a port
\* of the container on a task without address; an index that is no number;
\* an index beyond the ports; a name no port has; a name no port has beside a
\* port without name; a name a port has beside a port without name
FailingTasks ==
    { TaskOf("f1", StatusABC, Nil, << P_route, P_host >>),
      TaskOf("f2", StatusABC, TaskLabelsOf(<<"x">>, <<"h">>), << P_host >>),
      TaskOf("f3", StatusABC, TaskLabelsOf(<<"5">>, <<"h">>), << P_host >>),
      TaskOf("f4", StatusABC, NameOnly(<<"z","z">>), << P_host >>),
      TaskOf("f5", StatusABC, NameOnly(<<"z","z">>), << P_host, P_anon >>),
      TaskOf("f6", StatusABC, NameOnly(<<"h">>), << P_anon, P_host >>) }

\* a task of the nested container def456 with an address and two endpoints,
\* one by its port and one by its index label
SoundTask ==
    TaskOf("s", << Status(Some(ContainerStatusNI(Some(ContainerID("def456", Some(ContainerID("parent1", Nil)))),
                                                 << NetworkInfo(<< S_taskIP >>, <<>>) >>))) >>,
           Some(<< Label(L_FORMAT, S_prometheus), Label(L_PORT_INDEX, <<"0">>),
                   Label(L_ENDPOINT, <<"/","e">>) >>),
           << P_route >>)

TaskLists ==
    { << f >> : f \in FailingTasks }
    \cup { << f, SoundTask >> : f \in FailingTasks }
    \cup { << SoundTask, f >> : f \in FailingTasks }

\* a call of getMesosTaskPrometheusURLs with the tasks ts, on the node
\* 10.0.0.1; a call that panics returns nothing
DiscoverAll(ts) ==
    /\ IsNil(applied)
    /\ applied' = Some([op |-> "getMesosTaskPrometheusURLs/tasks",
                        tasks |-> ts,
                        panicked |-> discoveryPanics(ts, S_node),
                        urls |-> IF discoveryPanics(ts, S_node) THEN <<>>
                                 ELSE getMesosTaskPrometheusURLs(ts, S_node)])

\* a status with a container status without id, then one of abc123
StatusLateID ==
    << Status(Some(ContainerStatusNI(Nil, <<>>))),
       Status(Some(ContainerStatusNI(Some(ContainerID("abc123", Nil)), <<>>))) >>

\* one launched task with the statuses st, as the agent reports it to the
\* prometheus input (GetTasks) and to the metadata processor (GetState)
ScrapedTask(st) == TaskOf("t", st, Nil, << P_host >>)
StateOfTask(st) == GetStateOf(Some([launchedTasks |-> << Task("task", "fw1", Some("ex1"), st, Nil) >>]))

\* makeURLAndAddress for an endpoint of the task, and cache() on the state
\* that holds the task: the tag of the target and the map of the processor
Correlate(st) ==
    /\ IsNil(applied)
    /\ applied' = Some([op |-> "makeURLAndAddress/cache",
                        statuses |-> st,
                        tag |-> makeURLAndAddress(ScrapedTask(st), endpointOf(S_node, 95, S_metrics)).Tags[K_container_id],
                        cache |-> cacheResult(StateOfTask(st))])

\* a call of getTasks of the prometheus input, and one of getState of the
\* metadata processor, resp being what the agent answers
CallGetTasks(resp) ==
    /\ IsNil(applied)
    /\ applied' = Some([op |-> "getTasks", expected |-> "GET_TASKS", resp |-> resp,
                        payload |-> resp.getTasks, err |-> getTasks(resp).err,
                        kind |-> getTasks(resp).kind, closed |-> getTasks(resp).closed,
                        result |-> getTasks(resp).gt])

CallGetState(resp) ==
    /\ IsNil(applied)
    /\ applied' = Some([op |-> "getState", expected |-> "GET_STATE", resp |-> resp,
                        payload |-> resp.getState, err |-> getState(resp).err,
                        kind |-> getState(resp).kind, closed |-> getState(resp).closed,
                        result |-> getState(resp).gs])

(***************************************************************************)
(* processors/nginx_vts_filter.  Strings are sequences of characters.      *)
(***************************************************************************)
K_filter == <<"f","i","l","t","e","r">>
K_filter_name == <<"f","i","l","t","e","r","_","n","a","m","e">>

\* strings.Index(s, sep): the place of the first sep in s, 0 for Go's -1
IndexOfSep(s, sep) ==
    IF \E i \in 1..(Len(s) - Len(sep) + 1) : SubSeq(s, i, i + Len(sep) - 1) = sep
    THEN CHOOSE i \in 1..(Len(s) - Len(sep) + 1) :
            /\ SubSeq(s, i, i + Len(sep) - 1) = sep
            /\ \A j \in 1..(i - 1) : SubSeq(s, j, j + Len(sep) - 1) # sep
    ELSE 0

\* strings.Split(s, sep) for a sep that is not empty
RECURSIVE strings_Split(_, _)
strings_Split(s, sep) ==
    IF IndexOfSep(s, sep) = 0 THEN << s >>
    ELSE << Take(s, IndexOfSep(s, sep) - 1) >>
         \o strings_Split(Drop(s, IndexOfSep(s, sep) + Len(sep) - 1), sep)

\* strings.Join(a, sep)
RECURSIVE strings_Join(_, _)
strings_Join(a, sep) ==
    IF a = <<>> THEN <<>>
    ELSE IF Len(a) = 1 THEN a[1]
    ELSE a[1] \o sep \o strings_Join(Tail(a), sep)

\* metric.RemoveTag: the tag goes if it is there
RemoveTag(m, k) == [m EXCEPT !.tags = [x \in DOMAIN m.tags \ { k } |-> m.tags[x]]]

Convert(measurement, tagDelimiter, keyValueDelimiter) ==
    [Measurement |-> measurement, TagDelimiter |-> tagDelimiter,
     KeyValueDelimiter |-> keyValueDelimiter]

kvStringToTag(kv, delimiter) ==
    IF Len(strings_Split(kv, delimiter)) # 2
    THEN [err |-> TRUE, tag |-> [Key |-> <<>>, Value |-> <<>>]]
    ELSE [err |-> FALSE,
          tag |-> [Key |-> strings_Split(kv, delimiter)[1], Value |-> strings_Split(kv, delimiter)[2]]]

RECURSIVE unwrapFrom(_, _, _, _)
unwrapFrom(kvs, i, kvDelimiter, tags) ==
    IF i > Len(kvs) THEN [err |-> FALSE, tags |-> tags]
    ELSE IF kvStringToTag(kvs[i], kvDelimiter).err THEN [err |-> TRUE, tags |-> <<>>]
    ELSE unwrapFrom(kvs, i + 1, kvDelimiter, Append(tags, kvStringToTag(kvs[i], kvDelimiter).tag))

unwrapTags(kvPairs, kvDelimiter, tagDelimiter) ==
    unwrapFrom(strings_Split(kvPairs, tagDelimiter), 1, kvDelimiter, <<>>)

\* s[1] = filterTags[0].Key; s[2] = filterNameTags[0].Key, on the segments of name
renamed(segments, filterTags, filterNameTags) ==
    IF Len(segments) < 3 THEN [err |-> TRUE, name |-> <<>>]
    ELSE [err |-> FALSE,
          name |-> strings_Join([segments EXCEPT ![2] = filterTags[1].Key,
                                                 ![3] = filterNameTags[1].Key], <<"_">>)]

vtsFilterName(name, filterTags, filterNameTags) ==
    IF Len(filterTags) < 1 THEN [err |-> TRUE, name |-> <<>>]
    ELSE IF Len(filterNameTags) < 1 THEN [err |-> TRUE, name |-> <<>>]
    ELSE renamed(strings_Split(name, <<"_">>), filterTags, filterNameTags)

\* `for _, t := range tags { point.AddTag(t.Key, t.Value) }`
RECURSIVE addEach(_, _, _)
addEach(point, tags, i) ==
    IF i > Len(tags) THEN point
    ELSE addEach(AddTag(point, tags[i].Key, tags[i].Value), tags, i + 1)

\* step 3: the name, r being what vtsFilterName returned
setName(point, r) == IF r.err THEN point ELSE [point EXCEPT !.name = r.name]

\* step 2, from the unwrapping of filter_name on: fnt is what unwrapTags returned
filterNameStep(point, name, filterTags, fnt) ==
    IF fnt.err THEN point
    ELSE setName(RemoveTag(addEach(point, fnt.tags, 1), K_filter_name),
                 vtsFilterName(name, filterTags, fnt.tags))

\* step 2: point is the metric after step 1
afterFilter(point, name, kvDelimiter, tagDelimiter, filterTags) ==
    IF K_filter_name \notin DOMAIN point.tags THEN point
    ELSE filterNameStep(point, name, filterTags,
                        unwrapTags(point.tags[K_filter_name], kvDelimiter, tagDelimiter))

\* a step 1 that leaves the filter tag on the metric
filterStep_KeepFilter(point, name, kvDelimiter, tagDelimiter, ft) ==
    IF ft.err THEN point
    ELSE afterFilter(addEach(point, ft.tags, 1), name, kvDelimiter, tagDelimiter, ft.tags)

\* step 1, from the unwrapping of filter on: ft is what unwrapTags returned
filterStep(point, name, kvDelimiter, tagDelimiter, ft) ==
    IF ft.err THEN point
    ELSE afterFilter(RemoveTag(addEach(point, ft.tags, 1), K_filter),
                     name, kvDelimiter, tagDelimiter, ft.tags)

\* the delimiters of a conversion: = and , unless configured
kvDelimiterOf(convert) ==
    IF convert.KeyValueDelimiter # <<>> THEN convert.KeyValueDelimiter ELSE <<"=">>
tagDelimiterOf(convert) ==
    IF convert.TagDelimiter # <<>> THEN convert.TagDelimiter ELSE <<",">>

\* one iteration of the loop of Apply over the conversions
convertPoint(point, convert) ==
    IF convert.Measurement = <<>> \/ point.name # convert.Measurement THEN point
    ELSE IF K_filter \notin DOMAIN point.tags THEN point
    ELSE filterStep(point, point.name, kvDelimiterOf(convert), tagDelimiterOf(convert),
                    unwrapTags(point.tags[K_filter], kvDelimiterOf(convert), tagDelimiterOf(convert)))

RECURSIVE convertFrom(_, _, _)
convertFrom(point, conversions, i) ==
    IF i > Len(conversions) THEN point
    ELSE convertFrom(convertPoint(point, conversions[i]), conversions, i + 1)

\* NginxVTSFilter.Apply
vtsApply(conversions, in) == [i \in DOMAIN in |-> convertFrom(in[i], conversions, 1)]

\* measurements of four segments and of two
V_name == <<"n","_","v","_","f","_","t">>
V_short == <<"n","_","v">>
V_other == <<"o","_","v","_","f","_","t">>

C_default == Convert(V_name, <<>>, <<>>)
C_custom == Convert(V_name, <<";">>, <<":">>)
C_short == Convert(V_short, <<>>, <<>>)
C_none == Convert(<<>>, <<>>, <<>>)

\* the configurations: the conversion the metric meets is the last one
VTSConversions ==
    { << C_default >>, << C_custom >>, << C_short >>,
      << C_none, C_default >>, << C_default, C_default >> }

\* values of the filter tag: empty; one pair; two pairs; a pair and a word;
\* pairs between delimiters; a pair of key filter; a pair of key filter_name;
\* two pairs with ; and :
VTSFilters ==
    { <<>>, <<"u","=","B">>, <<"u","=","B",",","s","=","4">>, <<"u","=","B",",","s">>, <<",","u","=","B",",">>, <<"f","i","l","t","e","r","=","x">>, <<"f","i","l","t","e","r","_","n","a","m","e","=","x">>, <<"u",":","B",";","s",":","4">> }

\* values of the filter_name tag: empty; one pair; a word; one pair with :
VTSFilterNames == { <<>>, <<"c","=","M">>, <<"c","l","i","e","n","t">>, <<"c",":","M">> }

VTSTags ==
    { (K_host :> "h1") }
    \cup { (K_host :> "h1") @@ (K_filter :> f) : f \in VTSFilters }
    \cup { (K_host :> "h1") @@ (K_filter_name :> n) : n \in VTSFilterNames }
    \cup { (K_host :> "h1") @@ (K_filter :> f) @@ (K_filter_name :> n) :
             f \in VTSFilters, n \in VTSFilterNames }

VTSMetrics == { Metric(n, tags) : n \in { V_name, V_short, V_other }, tags \in VTSTags }

\* a call of NginxVTSFilter.Apply with one metric
CallVTSApply(conversions, m) ==
    /\ IsNil(applied)
    /\ applied' = Some([op |-> "NginxVTSFilter.Apply", conversions |-> conversions,
                        in |-> m, out |-> vtsApply(conversions, << m >>)[1]])

FnNext ==
    \/ \E t \in Tasks : Discover(t) /\ UNCHANGED << mvars, pvars, rvars >>
    \/ \E ts \in TaskLists : DiscoverAll(ts) /\ UNCHANGED << mvars, pvars, rvars >>
    \/ \E st \in StatusCandidates \cup { StatusLateID } : Correlate(st) /\ UNCHANGED << mvars, pvars, rvars >>
    \/ \E resp \in AgentResponses \cup { TasksResponse(FALSE, TRUE, "GET_TASKS", Nil) } : CallGetTasks(resp) /\ UNCHANGED << mvars, pvars, rvars >>
    \/ \E resp \in Responses : CallGetState(resp) /\ UNCHANGED << mvars, pvars, rvars >>
    \/ \E conversions \in VTSConversions, m \in VTSMetrics : CallVTSApply(conversions, m) /\ UNCHANGED << mvars, pvars, rvars >>

(***************************************************************************)
(* inputs/dcos_statsd: the registry of containers behind the Controller    *)
(* interface.  Its implementation is not among the sources; AddContainer   *)
(* and RemoveContainer are modelled after section 4.5 of the               *)
(* specification and the calls of TestGather.  A port of 0 and a host of   *)
(* "" are unset.                                                           *)
(***************************************************************************)
Container(id, host, port) == [Id |-> id, StatsdHost |-> host, StatsdPort |-> port]

RegistryIds == { "abc123", "xyz123", "qqq123" }
StatsdHost == "127.0.0.1"
RequestHosts == { "", StatsdHost, "10.0.0.9" }
EphemeralPorts == { 49152, 49153 }
RequestPorts == { 0, 8125, 49152 }
Requests == { Container(id, h, p) : id \in RegistryIds, h \in RequestHosts, p \in RequestPorts }

usedPorts(reg) == { reg[id].StatsdPort : id \in DOMAIN reg }

\* the ports the system can give a listener that asks for any: a port no
\* listener of the registry holds, or none (0) when all are held
FreePorts(reg) ==
    IF EphemeralPorts \subseteq usedPorts(reg) THEN { 0 }
    ELSE EphemeralPorts \ usedPorts(reg)

\* the container as it is registered: an unset host is the host of the
\* registry, an unset port is the port the system gave
registered(c, free) ==
    Container(c.Id, IF c.StatsdHost = "" THEN StatsdHost ELSE c.StatsdHost,
              IF c.StatsdPort = 0 THEN free ELSE c.StatsdPort)

accepted(reg, ctr) ==
    [containers |-> MapSet(reg, ctr.Id, ctr), returned |-> Some(ctr), err |-> ""]

refused(reg, err) == [containers |-> reg, returned |-> Nil, err |-> err]

\* AddContainer: a registered id returns its entry; a port another container
\* holds is a conflict; otherwise the container gets its listener and is
\* registered.  free is the port the system gives when none is asked for
addContainer_NoConflict(reg, c, free) ==
    IF c.Id \in DOMAIN reg
    THEN [containers |-> reg, returned |-> Some(reg[c.Id]), err |-> ""]
    ELSE IF c.StatsdPort = 0 /\ free = 0 THEN refused(reg, "listen")
    ELSE accepted(reg, registered(c, free))

addContainer_Overwrite(reg, c, free) ==
    IF c.StatsdPort # 0 /\ c.StatsdPort \in usedPorts(reg)
    THEN IF c.Id \in DOMAIN reg
         THEN [containers |-> reg, returned |-> Some(reg[c.Id]), err |-> ""]
         ELSE refused(reg, "conflict")
    ELSE IF c.StatsdPort = 0 /\ free = 0 THEN refused(reg, "listen")
    ELSE accepted(reg, registered(c, free))

addContainer(reg, c, free) ==
    IF c.Id \in DOMAIN reg
    THEN [containers |-> reg, returned |-> Some(reg[c.Id]), err |-> ""]
    ELSE IF c.StatsdPort # 0 /\ c.StatsdPort \in usedPorts(reg)
    THEN refused(reg, "conflict")
    ELSE IF c.StatsdPort = 0 /\ free = 0 THEN refused(reg, "listen")
    ELSE accepted(reg, registered(c, free))

AddContainer(c, free) ==
    /\ containersStatsd' = addContainer(containersStatsd, c, free).containers
    /\ lastAdd' = Some([c |-> c, before |-> containersStatsd,
                        returned |-> addContainer(containersStatsd, c, free).returned,
                        err |-> addContainer(containersStatsd, c, free).err])

\* RemoveContainer: the mapping goes; an id that is not registered is no error
RemoveContainer(c) ==
    /\ containersStatsd' = [id \in DOMAIN containersStatsd \ { c.Id } |-> containersStatsd[id]]
    /\ lastAdd' = Nil

RegistryNext ==
    \/ \E c \in Requests, free \in FreePorts(containersStatsd) : AddContainer(c, free) /\ UNCHANGED << mvars, pvars, fvars >>
    \/ \E c \in Requests : RemoveContainer(c) /\ UNCHANGED << mvars, pvars, fvars >>

(***************************************************************************)
(* The specifications: Spec runs the metadata processor with the           *)
(* prometheus input at rest, SpecProm runs the prometheus input with the   *)
(* processor at rest, SpecResolve applies GetAllURLs, SpecFn applies the   *)
(* functions of discovery and the queries to the agent, SpecRegistry runs  *)
(* the registry of containers.                                             *)
(***************************************************************************)
MetaRest ==
    /\ MetaInit
    /\ rateLimit = 1
    /\ timeout = 1

FnRest == applied = Nil

RegistryRest ==
    /\ containersStatsd = EmptyMap
    /\ lastAdd = Nil

Init ==
    /\ MetaInit
    /\ PromInit
    /\ URLs = <<>>
    /\ KubernetesServices = <<>>
    /\ MesosAgentUrl = <<>>
    /\ FnRest
    /\ RegistryRest
Next == MetaNext
Spec == Init /\ [][Next]_vars

PromSpecInit ==
    /\ MetaInit
    /\ rateLimit = 1
    /\ timeout = 1
    /\ PromInit
    /\ FnRest
    /\ RegistryRest
SpecProm == PromSpecInit /\ [][PromNext]_vars

ResolveSpecInit ==
    /\ MetaRest
    /\ ResolveInit
    /\ FnRest
    /\ RegistryRest
SpecResolve == ResolveSpecInit /\ [][ResolveNext]_vars

PromRest ==
    /\ URLs = <<>>
    /\ KubernetesServices = <<>>
    /\ MesosAgentUrl = <<>>
    /\ PromIdle

FnSpecInit ==
    /\ MetaRest
    /\ PromRest
    /\ FnRest
    /\ RegistryRest
SpecFn == FnSpecInit /\ [][FnNext]_vars

RegistrySpecInit ==
    /\ MetaRest
    /\ PromRest
    /\ FnRest
    /\ RegistryRest
SpecRegistry == RegistrySpecInit /\ [][RegistryNext]_vars


(***************************************************************************)
(* Properties of the metadata cache.                                       *)
(***************************************************************************)
BodiesRunning == { g \in G : InBody(g) }

C2_SingleFlight ==
    /\ Cardinality(BodiesRunning) <= 1
    /\ OnceArmed => /\ BodiesRunning = {}
                    /\ sinceRun = -1 \/ sinceRun >= rateLimit

\* a query that has outlasted the cooldown, with a further trigger arriving
C2_Witness ==
    \E g, h \in G : /\ gr[g].pc = "waiting"
                    /\ gr[g].elapsed >= rateLimit
                    /\ timer = 0
                    /\ gr[h].pc = "spawned"

\* C3 as stated: no lookup of the container map by Apply executes while the
\* lock is held for the replacement of the map.
C3_LookupsExcluded ==
    [][(applyPc = "loop" /\ applyIdx' = applyIdx + 1) => mu = 0]_vars

\* C4: the container map that a lookup can see is always either the complete
\* map from before the running refresh or the complete map that refresh built.
C4_AtomicReplace ==
    /\ \/ containers = EmptyMap
       \/ \E st \in States : containers = cacheResult(st)
    /\ \A g \in G : mu = g =>
          \/ containers = gr[g].before
          \/ gr[g].pc = "cacheUnlock" /\ containers = cacheResult(Deref(gr[g].gs))

\* Apply has looked a record up while cache() holds a partly built map
C4_Witness ==
    /\ applyPc = "loop"
    /\ applyIdx > 1
    /\ \E g \in G : /\ mu = g
                    /\ gr[g].pc = "cacheLoop"
                    /\ gr[g].local # EmptyMap
                    /\ gr[g].local # cacheResult(Deref(gr[g].gs))
                    /\ gr[g].local # containers

NameKeys == { K_service_name, K_executor_name, K_task_name }

\* the record of this step of Apply's loop is found in the cache
ApplyHit ==
    /\ applyPc = "loop"
    /\ applyIdx' = applyIdx + 1
    /\ K_container_id \in DOMAIN applyOut[applyIdx].tags
    /\ applyOut[applyIdx].tags[K_container_id] \in DOMAIN containers

ApplyABC ==
    /\ ApplyHit
    /\ lastOutcome = "cached"
    /\ containers = cacheResult(StateABC)
    /\ applyOut[applyIdx].tags[K_container_id] = "abc123"

\* C6 as stated: the record gets service_name=F, executor_name=E,
\* task_name=task and foo=bar, and loses no tag.
C6_LowercaseLabel ==
    [][ApplyABC =>
        LET old == applyOut[applyIdx].tags
            new == applyOut'[applyIdx].tags
        IN  /\ DOMAIN old \subseteq DOMAIN new
            /\ new[K_service_name] = "F"
            /\ new[K_executor_name] = "E"
            /\ new[K_task_name] = "task"
            /\ K_foo \in DOMAIN new /\ new[K_foo] = "bar"
    ]_vars

\* C6, amended: the record gets service_name=F, executor_name=E,
\* task_name=task and FOO=bar (the label key with the prefix DCOS_METRICS_
\* removed, in the case it was written), and loses no tag.
C6_StrippedLabel ==
    [][ApplyABC =>
        LET old == applyOut[applyIdx].tags
            new == applyOut'[applyIdx].tags
        IN  /\ DOMAIN new = DOMAIN old \cup { K_service_name, K_executor_name, K_task_name, K_FOO }
            /\ new[K_service_name] = "F"
            /\ new[K_executor_name] = "E"
            /\ new[K_task_name] = "task"
            /\ new[K_FOO] = "bar"
            /\ \A k \in DOMAIN old \ (NameKeys \cup { K_FOO }) : new[k] = old[k]
    ]_vars

\* Apply has returned a record tagged container_id=abc123 with FOO=bar
C6_Witness ==
    /\ applyPc = "returned"
    /\ lastOutcome = "cached"
    /\ containers = cacheResult(StateABC)
    /\ \E i \in 1..Len(applyOut) :
          /\ applyIn[i] = M_abc
          /\ K_FOO \in DOMAIN applyOut[i].tags
          /\ applyOut[i].tags[K_FOO] = "bar"

\* the record of this step of Apply's loop is not in the cache
ApplyMiss ==
    /\ applyPc = "loop"
    /\ applyIdx' = applyIdx + 1
    /\ K_container_id \in DOMAIN applyOut[applyIdx].tags
    /\ applyOut[applyIdx].tags[K_container_id] \notin DOMAIN containers

\* Apply returns in this step, having met an uncached container_id
ApplyReturnsStale ==
    applyPc = "loop" /\ applyPc' = "returned" /\ stale

\* C7: a record whose container_id is not cached keeps its tags; Apply then
\* starts the refresh as a goroutine of its own and returns in the same step,
\* before that refresh has reached the gate or sent anything; whatever the
\* state of a refresh, Apply can take its next step.
C7_ApplyDoesNotWait ==
    [][/\ ApplyMiss => applyOut' = applyOut
       /\ ApplyReturnsStale =>
            /\ \E g \in G : gr[g].pc = "none" /\ gr'[g].pc = "spawned"
            /\ \A g \in G : gr[g].pc # "none" => gr'[g] = gr[g]
            /\ UNCHANGED << containers, mu, client, onceDone, onceLocked, timer, sinceQuery, sinceRun >>
            /\ applyOut' = applyOut
       /\ applyPc = "loop" => ENABLED (ApplyRecord \/ ApplyEnd)
    ]_vars

\* Apply has returned its records unchanged while an earlier refresh is still
\* waiting for the agent and the refresh it started has not run yet
C7_Witness ==
    /\ applyPc = "returned"
    /\ stale
    /\ applyOut = applyIn
    /\ \E g, h \in G : gr[g].pc = "waiting" /\ gr[h].pc = "spawned"

\* a run of the body of refresh ends in this step with an error
RefreshFails ==
    \E g \in G : /\ gr[g].pc \in { "spawned", "waiting" }
                 /\ gr'[g].pc = "none"
                 /\ lastOutcome' \in { "clientError", "getStateError" }

\* C8: a refresh that fails leaves the container map as it was, and the map
\* is only ever changed by a refresh whose getState returned a state.
C8_FailureKeepsCache ==
    [][/\ RefreshFails => containers' = containers
       /\ containers' # containers => \E g \in G : mu = g /\ gr[g].ok
    ]_vars

\* a refresh has failed while the cache held entries, and Apply has since
\* enriched a record from them
C8_Witness ==
    /\ lastOutcome \in { "clientError", "getStateError" }
    /\ containers # EmptyMap
    /\ applyPc = "returned"
    /\ applyOut # applyIn

(***************************************************************************)
(* Properties of the prometheus input.                                     *)
(***************************************************************************)
\* the static URLs of the configuration that url.Parse accepts, as parsed
Parses(raw) == ~url_Parse(raw).err
Parsed(raw) == Deref(url_Parse(raw).url)
ParsedStatic == { Parsed(URLs[i]) : i \in { j \in DOMAIN URLs : Parses(URLs[j]) } }
ServiceParseFails == \E i \in DOMAIN KubernetesServices : ~Parses(KubernetesServices[i])

\* C9: within one collection cycle no two fetches are issued to the same
\* resolved URL string, whatever mix of static URLs, DNS-service endpoints and
\* scheduler-discovered endpoints is configured.
C9_NoDuplicateFetch == \A s \in DOMAIN requested : requested[s] <= 1

\* the target t is the one the static loop made for the static URL u:
\* OriginalURL and URL are equal and are u
IsOwnTarget(r, t, u) ==
    /\ r.heap[t.OriginalURL] = r.heap[t.URL]
    /\ r.heap[t.URL] = u

IsStaticTarget(r, u) == IsOwnTarget(r, r.all[URL_String(u)], u)

\* C10: every configured static URL that parses yields exactly one target
\* whose OriginalURL equals its resolved URL; a static URL that does not parse
\* is skipped, makes resolution return no error and removes no other target.
StaticTargetsIn(r) ==
    \A u \in ParsedStatic : URL_String(u) \in DOMAIN r.all /\ IsStaticTarget(r, u)

IsTargetOf(r, t, u, p, a) ==
    /\ r.heap[t.OriginalURL] = p
    /\ ~a.err
    /\ t.Address \in Range(a.addrs)
    /\ URL_String(AddressToURL(p, t.Address)) = URL_String(u)

IsTargetOfService(r, lookup, t, u, p) == IsTargetOf(r, t, u, p, lookup[URL_Hostname(p)])

\* the target under the string of u was made for a service: the string is
\* that of the template of a configured service with one of its addresses
IsServiceTarget(r, lookup, u) ==
    /\ r.all[URL_String(u)].Address # <<>>
    /\ \E i \in DOMAIN KubernetesServices :
          /\ Parses(KubernetesServices[i])
          /\ IsTargetOfService(r, lookup, r.all[URL_String(u)], u, Parsed(KubernetesServices[i]))

\* what GetAllURLs returned under the string of u has OriginalURL equal to URL
HasOwnURL(r, u) == r.heap[r.all[URL_String(u)].OriginalURL] = r.heap[r.all[URL_String(u)].URL]

ResolvedAsCoded(r, lookup, resp) ==
    /\ r.nilMap <=> ServiceParseFails
    /\ r.err <=> (ServiceParseFails \/ (MesosAgentUrl # <<>> /\ getTasks(resp).err))
    /\ ~r.nilMap =>
          \A u \in ParsedStatic :
             /\ URL_String(u) \in DOMAIN r.all
             /\ IsServiceTarget(r, lookup, u) \/ HasOwnURL(r, u)

IsResolvedTarget(r, t, p, x) ==
    /\ t.Address = x
    /\ r.heap[t.OriginalURL] = p
    /\ r.heap[t.URL].Scheme = p.Scheme
    /\ r.heap[t.URL].Path = p.Path
    /\ r.heap[t.URL].RawQuery = p.RawQuery
    /\ URL_Hostname(r.heap[t.URL]) = x

\* the targets GetAllURLs returned for the template p
TargetsOf(r, p) ==
    { k \in DOMAIN r.all : r.all[k].Address # <<>> /\ r.heap[r.all[k].OriginalURL] = p }

\* the service of template p, which the resolver answered with a: N addresses
\* give exactly N targets, one per address; a failure leaves the targets of
\* the static URLs in the result
ServiceResolved(r, p, a) ==
    IF a.err
    THEN \A u \in ParsedStatic : URL_String(u) \in DOMAIN r.all
    ELSE /\ Cardinality(TargetsOf(r, p)) = Len(a.addrs)
         /\ \A x \in Range(a.addrs) : \E k \in TargetsOf(r, p) : IsResolvedTarget(r, r.all[k], p, x)

ServicesResolved(r, lookup) ==
    \A i \in DOMAIN KubernetesServices :
        Parses(KubernetesServices[i]) =>
            ServiceResolved(r, Parsed(KubernetesServices[i]),
                            lookup[URL_Hostname(Parsed(KubernetesServices[i]))])

IsTaskTarget(r, t) ==
    /\ t.Address = <<>>
    /\ t.OriginalURL = t.URL
    /\ K_container_id \in DOMAIN t.Tags

\* the target t came from some configured service with the address it carries
IsTargetOfSomeService(r, lookup, t) ==
    \E i \in DOMAIN KubernetesServices :
        /\ Parses(KubernetesServices[i])
        /\ ~lookup[URL_Hostname(Parsed(KubernetesServices[i]))].err
        /\ t.Address \in Range(lookup[URL_Hostname(Parsed(KubernetesServices[i]))].addrs)
        /\ IsResolvedTarget(r, t, Parsed(KubernetesServices[i]), t.Address)

\* under the URL string of the template p with the address x there is the
\* target of a service for that address, or the target of a task
AddressCovered(r, lookup, p, x) ==
    /\ URL_String(AddressToURL(p, x)) \in DOMAIN r.all
    /\ \/ /\ r.all[URL_String(AddressToURL(p, x))].Address = x
          /\ IsTargetOfSomeService(r, lookup, r.all[URL_String(AddressToURL(p, x))])
       \/ IsTaskTarget(r, r.all[URL_String(AddressToURL(p, x))])

ServiceCovered(r, lookup, p, a) ==
    IF a.err
    THEN TargetsOf(r, p) = {}
    ELSE /\ \A x \in Range(a.addrs) : AddressCovered(r, lookup, p, x)
         /\ \A k \in TargetsOf(r, p) : r.all[k].Address \in Range(a.addrs)

ServicesCovered(r, lookup) ==
    /\ \A i \in DOMAIN KubernetesServices :
          ServiceCovered(r, lookup, Parsed(KubernetesServices[i]),
                         lookup[URL_Hostname(Parsed(KubernetesServices[i]))])
    /\ \A k \in DOMAIN r.all :
          r.all[k].Address # <<>> => IsTargetOfSomeService(r, lookup, r.all[k])
    /\ \A u \in ParsedStatic : URL_String(u) \in DOMAIN r.all

TasksQueryFailed ==
    /\ ~IsNil(lastResolve)
    /\ MesosAgentUrl # <<>>
    /\ ~Deref(lastResolve).result.nilMap
    /\ getTasks(Deref(lastResolve).resp).err

\* C12: when the GetTasks query fails during target resolution the cycle is
\* not aborted: Gather returns no error on its account, and every target
\* already resolved from static URLs and DNS services is fetched in that cycle.
C12_TasksFailureKeepsCycle ==
    TasksQueryFailed =>
        /\ gatherResult # "err"
        /\ DOMAIN Deref(lastResolve).result.all \subseteq DOMAIN fetchPc

(***************************************************************************)
(* Properties of the discovery of the endpoints of a task.                 *)
(***************************************************************************)
Discovered == ~IsNil(applied) /\ Deref(applied).op = "getMesosTaskPrometheusURLs"

\* the labels ll, a *mesos.Labels, have a label of key k; its value
HasLabel(ll, k) == ~IsNil(ll) /\ \E l \in Range(Deref(ll)) : l.key = k
LabelValue(ll, k) ==
    IF HasLabel(ll, k) THEN (CHOOSE l \in Range(Deref(ll)) : l.key = k).value ELSE <<>>
RouteOrMetrics(ll) ==
    IF LabelValue(ll, L_ENDPOINT) # <<>> THEN LabelValue(ll, L_ENDPOINT) ELSE S_metrics

\* the declared ports of the task, and those labelled for prometheus
DeclaredPorts(t) == Deref(Deref(t.discovery))
Labelled(t) ==
    { i \in DOMAIN DeclaredPorts(t) : LabelValue(DeclaredPorts(t)[i].labels, L_FORMAT) = S_prometheus }

\* the place of i among the indices S
Rank(S, i) == Cardinality({ j \in S : j <= i })

\* the addresses of the statuses of the task, and the container ids, own
\* and parent, that they carry
StatusAddresses(t) ==
    UNION { Range(ni.ipAddresses) :
              ni \in UNION { Range(Deref(st.containerStatus).networkInfos) :
                               st \in { x \in Range(t.statuses) : ~IsNil(x.containerStatus) } } }
StatusContainerIDs(t) ==
    { Deref(Deref(st.containerStatus).containerID) :
        st \in { x \in Range(t.statuses) :
                   ~IsNil(x.containerStatus) /\ ~IsNil(Deref(x.containerStatus).containerID) } }
TaskIDs(t) ==
    { c.value : c \in StatusContainerIDs(t) }
    \cup { Deref(c.parent).value : c \in { x \in StatusContainerIDs(t) : ~IsNil(x.parent) } }

\* the discovery holds, tagged with the container id cid, the URL of endpoint
EmittedWith(a, endpoint, cids) ==
    \E j \in DOMAIN a.urls :
        /\ ~a.urls[j].err
        /\ URL_String(Deref(a.urls[j].url)) = endpoint
        /\ DOMAIN a.urls[j].Tags = { K_container_id }
        /\ a.urls[j].Tags[K_container_id] \in cids

\* the port p of the task is emitted as the endpoint at place n, under the
\* hostname of the node or under an address of the task
PortEmitted(a, t, p, n) ==
    \E h \in { S_node } \cup StatusAddresses(t) :
        /\ a.fromPorts[n] = endpointOf(h, p.number, RouteOrMetrics(p.labels))
        /\ EmittedWith(a, a.fromPorts[n], IF TaskIDs(t) = {} THEN { "" } ELSE TaskIDs(t))

PortsEmitted(a, t) ==
    /\ Len(a.fromPorts) = Cardinality(Labelled(t))
    /\ \A i \in Labelled(t) : PortEmitted(a, t, DeclaredPorts(t)[i], Rank(Labelled(t), i))

\* C13: for every declared port of a task that carries the label
\* DCOS_METRICS_FORMAT=prometheus discovery emits the endpoint
\* http://<hostname>:<number><route>, the route being the port's
\* DCOS_METRICS_ENDPOINT label if not empty and /metrics otherwise, tagged
\* with the task's container_id; a port without the label yields no endpoint.
C13_PortEndpoints == Discovered => PortsEmitted(Deref(applied), Deref(applied).task)

\* what makes a port a host port in isHostPort: the network-scope label alone
\* when the port has one; without it a ports resource whose ranges hold the
\* number or whose scalar is the number, or a port mapping of a status, of
\* the container or of docker with that host port
InPortsResource(t, n) ==
    \E r \in Range(t.resources) :
        /\ r.name = "ports"
        /\ r.scalar = n \/ \E pr \in Range(r.ranges) : pr.begin <= n /\ n <= pr.end
InPortsRanges(t, n) ==
    \E r \in Range(t.resources) :
        r.name = "ports" /\ \E pr \in Range(r.ranges) : pr.begin <= n /\ n <= pr.end
MappedHostPorts(t) ==
    UNION { Range(ni.portMappings) :
              ni \in UNION { Range(Deref(st.containerStatus).networkInfos) :
                               st \in { x \in Range(t.statuses) : ~IsNil(x.containerStatus) } } }
    \cup (IF IsNil(t.container) THEN {}
          ELSE UNION { Range(ni.portMappings) : ni \in Range(Deref(t.container).networkInfos) }
               \cup (IF IsNil(Deref(t.container).docker) THEN {}
                     ELSE Range(Deref(Deref(t.container).docker))))
HostScoped(p, t) ==
    IF HasLabel(p.labels, L_network_scope)
    THEN LabelValue(p.labels, L_network_scope) = S_host
    ELSE InPortsResource(t, p.number) \/ p.number \in MappedHostPorts(t)

\* the task has an address: its latest status has a network with an address
HasAddress(t) ==
    /\ t.statuses # <<>>
    /\ ~IsNil(t.statuses[Len(t.statuses)].containerStatus)
    /\ Deref(t.statuses[Len(t.statuses)].containerStatus).networkInfos # <<>>
    /\ Deref(t.statuses[Len(t.statuses)].containerStatus).networkInfos[1].ipAddresses # <<>>
LatestAddress(t) ==
    Deref(t.statuses[Len(t.statuses)].containerStatus).networkInfos[1].ipAddresses[1]

\* the hostname of a port that has one
Reachable(p, t) == HostScoped(p, t) \/ HasAddress(t)
HostnameOf(p, t) == IF HostScoped(p, t) THEN S_node ELSE LatestAddress(t)
EndpointOfPort(p, t, ll) == endpointOf(HostnameOf(p, t), p.number, RouteOrMetrics(ll))

\* the container id of the first status that carries one, or ""
CarriesID(st) == ~IsNil(st.containerStatus) /\ ~IsNil(Deref(st.containerStatus).containerID)
FirstWithID(t) ==
    CHOOSE i \in DOMAIN t.statuses :
        CarriesID(t.statuses[i]) /\ \A j \in 1..(i - 1) : ~CarriesID(t.statuses[j])
FirstID(t) == Deref(Deref(t.statuses[FirstWithID(t)].containerStatus).containerID)
OwnID(t) == IF StatusContainerIDs(t) = {} THEN "" ELSE FirstID(t).value

Emitting(t) == { i \in Labelled(t) : Reachable(DeclaredPorts(t)[i], t) }

\* an endpoint that parses is in the result with the tag, one that does not
\* parse is not in the result
EmittedIfParsed(a, t, endpoint) ==
    IF Parses(endpoint) THEN EmittedWith(a, endpoint, { OwnID(t) })
    ELSE \A j \in DOMAIN a.urls : URL_String(Deref(a.urls[j].url)) # endpoint

ReachablePortsEmitted(a, t) ==
    /\ Len(a.fromPorts) = Cardinality(Emitting(t))
    /\ \A i \in Emitting(t) :
          /\ a.fromPorts[Rank(Emitting(t), i)]
                = EndpointOfPort(DeclaredPorts(t)[i], t, DeclaredPorts(t)[i].labels)
          /\ EmittedIfParsed(a, t, a.fromPorts[Rank(Emitting(t), i)])

\* C13, as the code has it: discovery emits the endpoint of a port that
\* carries the label only if the port has a hostname (it is a host port, or
\* the task has an address) and only if the endpoint parses as a URL; a
\* labelled port of the container on a task without address, and a port whose
\* route makes no URL, yield nothing.
C13_ReachablePortEndpoints ==
    Discovered => ReachablePortsEmitted(Deref(applied), Deref(applied).task)

\* a task with a labelled host port, and a second port that is not emitted:
\* without the label, or of the container on a task without address
C13_Witness ==
    /\ Discovered
    /\ Len(DeclaredPorts(Deref(applied).task)) = 2
    /\ Len(Deref(applied).fromPorts) = 1
    /\ Cardinality(Emitting(Deref(applied).task)) = 1
    /\ \E j \in DOMAIN Deref(applied).urls :
          Deref(applied).urls[j].Tags[K_container_id] = "abc123"

\* the task is labelled for prometheus; its index label names one of its ports
TaskLabelled(t) == LabelValue(t.labels, L_FORMAT) = S_prometheus
IndexLabel(t) == LabelValue(t.labels, L_PORT_INDEX)
NameLabel(t) == LabelValue(t.labels, L_PORT_NAME)
IndexInRange(t) ==
    /\ ~Atoi(IndexLabel(t)).err
    /\ 0 <= Atoi(IndexLabel(t)).n
    /\ Atoi(IndexLabel(t)).n < Len(DeclaredPorts(t))
PortAtIndex(t) == DeclaredPorts(t)[Atoi(IndexLabel(t)).n + 1]

\* the ports of the name of the name label, and the last of them
Named(t) == { i \in DOMAIN DeclaredPorts(t) : Deref(DeclaredPorts(t)[i].name) = NameLabel(t) }
LastNamed(t) == DeclaredPorts(t)[CHOOSE i \in Named(t) : \A j \in Named(t) : j <= i]

\* the task label yields the endpoint of the port p, under the hostname of
\* the node or under an address of the task
YieldsEndpointOf(a, t, p) ==
    /\ a.fromLabels.ok
    /\ \E h \in { S_node } \cup StatusAddresses(t) :
          a.fromLabels.endpoint = endpointOf(h, p.number, RouteOrMetrics(t.labels))

IndexFirst(a, t) ==
    IF IndexLabel(t) # <<>>
    THEN IF IndexInRange(t) THEN YieldsEndpointOf(a, t, PortAtIndex(t)) ELSE ~a.fromLabels.ok
    ELSE a.fromLabels.ok => NameLabel(t) # <<>> /\ Named(t) # {} /\ YieldsEndpointOf(a, t, LastNamed(t))

\* C14: for a task labelled DCOS_METRICS_FORMAT=prometheus a non-empty
\* DCOS_METRICS_PORT_INDEX label takes priority over DCOS_METRICS_PORT_NAME
\* and yields exactly one endpoint, from the port at that index; an index that
\* is no integer or is outside [0, number of ports) yields no endpoint, with
\* no fallback to the name label; the name label is used only when the index
\* label is absent.
C14_IndexBeforeName ==
    Discovered /\ TaskLabelled(Deref(applied).task) =>
        IndexFirst(Deref(applied), Deref(applied).task)

\* the task label yields the endpoint of the port p if p has a hostname, and
\* nothing if it has none
YieldsIfReachable(a, t, p) ==
    IF Reachable(p, t)
    THEN a.fromLabels.ok /\ a.fromLabels.endpoint = EndpointOfPort(p, t, t.labels)
    ELSE ~a.fromLabels.ok

IndexFirstIfReachable(a, t) ==
    IF IndexLabel(t) # <<>>
    THEN IF IndexInRange(t) THEN YieldsIfReachable(a, t, PortAtIndex(t)) ELSE ~a.fromLabels.ok
    ELSE IF NameLabel(t) # <<>> /\ Named(t) # {}
         THEN YieldsIfReachable(a, t, LastNamed(t))
         ELSE ~a.fromLabels.ok

\* C14, as the code has it: the port at the index, or without an index label
\* the last port of the name, yields its endpoint only if it has a hostname (it
\* is a host port, or the task has an address); an index that is no integer or
\* out of range yields nothing whatever the name label says; a task without
\* the format label yields nothing.
C14_IndexBeforeNameIfReachable ==
    Discovered =>
        IF TaskLabelled(Deref(applied).task)
        THEN IndexFirstIfReachable(Deref(applied), Deref(applied).task)
        ELSE ~Deref(applied).fromLabels.ok

\* index 1 beside the name adm, on the ports adm (91) and m (92): the endpoint
\* is that of port 92
C14_Witness ==
    /\ Discovered
    /\ IndexLabel(Deref(applied).task) = <<"1">>
    /\ NameLabel(Deref(applied).task) = N_adm
    /\ DeclaredPorts(Deref(applied).task) = << P_adm, P_route >>
    /\ Deref(applied).fromLabels.ok
    /\ Deref(applied).fromLabels.endpoint = endpointOf(S_taskIP, 92, S_metrics)

\* a port is of the host by (a) its network-scope label, (b) without that
\* label, the ranges of a ports resource of the task, or (c) a host port of a
\* port mapping of the task
ScopedByLabel(p) == LabelValue(p.labels, L_network_scope) = S_host
ScopedByRanges(p, t) == ~HasLabel(p.labels, L_network_scope) /\ InPortsRanges(t, p.number)
ScopedByMapping(p, t) == p.number \in MappedHostPorts(t)
HostScopedByAny(p, t) == ScopedByLabel(p) \/ ScopedByRanges(p, t) \/ ScopedByMapping(p, t)

\* the hostnames found for the ports of the task: the node's for the ports
\* that scoped(p, t) holds of, the address of the task for the others
HostnamesBy(a, t, scoped(_, _)) ==
    \A i \in DOMAIN DeclaredPorts(t) :
        ~a.hostnames[i].err =>
            /\ a.hostnames[i].hostname = S_node <=> scoped(DeclaredPorts(t)[i], t)
            /\ ~scoped(DeclaredPorts(t)[i], t) => a.hostnames[i].hostname = LatestAddress(t)

FoundIfReachable(a, t) ==
    \A i \in DOMAIN DeclaredPorts(t) :
        a.hostnames[i].err <=> ~Reachable(DeclaredPorts(t)[i], t)

ParentOrOwnID(t) ==
    IF StatusContainerIDs(t) = {} THEN ""
    ELSE IF IsNil(FirstID(t).parent) THEN FirstID(t).value
         ELSE Deref(FirstID(t).parent).value

\* every discovered endpoint of the task carries the one tag container_id = id
TaggedWith(a, id) == \A j \in DOMAIN a.urls : a.urls[j].Tags = (K_container_id :> id)

Fetching == gatherPc = "fetching"
FetchesAt(pc) == { k \in DOMAIN fetchPc : fetchPc[k] = pc }

\* one fetch per target that GetAllURLs resolved
OneFetchPerTarget ==
    /\ DOMAIN fetchPc = DOMAIN allURLs
    /\ allURLs = Deref(lastResolve).result.all

\* whatever the other fetches do, a fetch that has not asked can ask, and one
\* that has asked can get either outcome
NoFetchWaits ==
    /\ \A k \in FetchesAt("start") : ENABLED FetchRequest(k)
    /\ \A k \in FetchesAt("requested") : \A outcome \in FetchOutcomes : ENABLED FetchRespond(k, outcome)

\* the errors of the accumulator are errors of fetches that are done
ErrorsOfDoneFetches == accumulator.errors \subseteq FetchesAt("done")

\* a failing fetch adds the error of its target to the accumulator and leaves
\* every other fetch where it is
FailureIsRecorded ==
    \A k \in DOMAIN fetchPc :
        FetchRespond(k, "fail") =>
            /\ accumulator'.errors = accumulator.errors \cup { k }
            /\ accumulator'.metrics = accumulator.metrics
            /\ \A j \in DOMAIN fetchPc \ { k } : fetchPc'[j] = fetchPc[j]
            /\ gatherPc' = "fetching"

\* Gather returns from a cycle only when every fetch is done, and returns nil
ReturnsAfterAllFetches ==
    Fetching /\ gatherPc' # "fetching" =>
        /\ \A k \in DOMAIN fetchPc : fetchPc[k] = "done"
        /\ gatherResult' = "ok"

\* C17: Gather starts one fetch per resolved target, the fetches of a cycle
\* run concurrently, and Gather returns only after every fetch has resolved,
\* in success or in failure; a failing fetch is reported to the accumulator as
\* the error of its target and neither cancels nor prevents the fetch of any
\* other target.
C17_FetchesConcurrentAndIndependent ==
    /\ [](Fetching => OneFetchPerTarget /\ NoFetchWaits /\ ErrorsOfDoneFetches)
    /\ [][FailureIsRecorded /\ ReturnsAfterAllFetches]_vars

\* two targets: the fetch of one has failed and its error is in the
\* accumulator, the fetch of the other has asked and waits for its response
C17_Witness ==
    /\ Fetching
    /\ \E k, j \in DOMAIN fetchPc :
          /\ k # j
          /\ fetchPc[k] = "done"
          /\ k \in accumulator.errors
          /\ fetchPc[j] = "requested"
          /\ ENABLED FetchRespond(j, "metric")

(***************************************************************************)
(* Properties of the tags of a scraped metric.                             *)
(***************************************************************************)
WithoutUser(u) == [u EXCEPT !.User = Nil]
WithMetricsPath(u) == IF u.Path = <<>> THEN [u EXCEPT !.Path = S_metrics] ELSE u

\* the URL of target k as GetAllURLs made it, before any fetch touched it
OriginalOf(k) == Deref(lastResolve).result.heap[allURLs[k].OriginalURL]

\* a target that was not resolved has one URL, and asking for it puts /metrics
\* in the place of an empty path; a resolved target keeps its template
Unresolved(k) == allURLs[k].OriginalURL = allURLs[k].URL
UrlTagOf(k) ==
    IF Unresolved(k) THEN URL_String(WithoutUser(WithMetricsPath(OriginalOf(k))))
    ELSE URL_String(WithoutUser(OriginalOf(k)))

\* the template of a resolved target is one of kubernetes_services
IsTemplate(url) ==
    \E i \in DOMAIN KubernetesServices :
        /\ ~url_Parse(KubernetesServices[i]).err
        /\ url = URL_String(WithoutUser(Deref(url_Parse(KubernetesServices[i]).url)))

EndsInMetrics(url) ==
    Len(url) >= Len(S_metrics) /\ SubSeq(url, Len(url) - Len(S_metrics) + 1, Len(url)) = S_metrics

\* the tags m of a metric of target k
TagsOfTarget(m, k) ==
    /\ m[K_url] = UrlTagOf(k)
    /\ Index(m[K_url], "@") = 0
    /\ K_address \in DOMAIN m <=> allURLs[k].Address # <<>>
    /\ allURLs[k].Address # <<>> => m[K_address] = allURLs[k].Address /\ IsTemplate(m[K_url])
    /\ \A t \in DOMAIN allURLs[k].Tags : m[t] = allURLs[k].Tags[t]
    /\ Unresolved(k) /\ OriginalOf(k).Path = <<>> => EndsInMetrics(m[K_url])

\* the scrape of target k adds metrics, each with the tags of the target
ScrapeTagged(k) ==
    /\ accumulator.metrics \subseteq accumulator'.metrics
    /\ accumulator'.metrics # accumulator.metrics \/ \E m \in accumulator.metrics : TagsOfTarget(m, k)
    /\ \A m \in accumulator'.metrics \ accumulator.metrics : TagsOfTarget(m, k)

Queried == ~IsNil(applied) /\ Deref(applied).op \in { "getTasks", "getState" }

\* the response came, decoded to the end of its stream, has the expected type
\* and carries the payload of that type
Came(q) == ~q.resp.sendErr
Decoded(q) == Came(q) /\ ~q.resp.decodeErr
Typed(q) == Decoded(q) /\ q.resp.type = q.expected
Carrying(q) == Typed(q) /\ ~IsNil(q.payload)

QueryChecked(q) ==
    /\ ~q.err <=> Carrying(q)
    /\ ~q.err => q.result = q.payload /\ q.kind = ""
    /\ q.err => IsNil(q.result) /\ q.kind # ""
    /\ Decoded(q) /\ ~Typed(q) => q.kind = "type"
    /\ Typed(q) /\ ~Carrying(q) => q.kind = "empty"
    /\ q.kind = "type" => Decoded(q) /\ ~Typed(q)
    /\ q.kind = "empty" => Typed(q) /\ ~Carrying(q)
    /\ Came(q) => q.closed

\* C19: GetTasks and GetState succeed only when the stream of the response
\* decodes to its end, the type of the decoded message is the expected one and
\* the payload of that type is present; another type gives the error of the
\* protocol, an absent payload gives the error of the empty result, which is
\* another error and never a success without content, and the response is
\* closed on every path.
C19_QueriesChecked == Queried => QueryChecked(Deref(applied))

\* GetTasks got a response of the type GET_TASKS without payload: the error of
\* the empty result, the response closed
C19_Witness ==
    /\ Queried
    /\ Deref(applied).op = "getTasks"
    /\ Deref(applied).resp = TasksResponse(FALSE, FALSE, "GET_TASKS", Nil)
    /\ Deref(applied).err
    /\ Deref(applied).kind = "empty"
    /\ Deref(applied).closed

(***************************************************************************)
(* Properties of the registry of containers.                               *)
(***************************************************************************)
AddCalled == ~IsNil(lastAdd)
AddCalledAgain == AddCalled /\ Deref(lastAdd).c.Id \in DOMAIN Deref(lastAdd).before

\* C20: after any sequence of operations of the registry, an AddContainer
\* whose id is registered already returns the stored registration as it is,
\* also when the call carries another host or port, reports no error, and
\* leaves the number of registered containers as it was.
C20_AddIsIdempotent ==
    AddCalledAgain =>
        /\ Deref(lastAdd).returned = Some(Deref(lastAdd).before[Deref(lastAdd).c.Id])
        /\ Deref(lastAdd).err = ""
        /\ containersStatsd = Deref(lastAdd).before
        /\ Cardinality(DOMAIN containersStatsd) = Cardinality(DOMAIN Deref(lastAdd).before)

\* abc123 is registered on 127.0.0.1 with a port the system gave, and is added
\* again on 10.0.0.9 with port 8125 while another container is registered
C20_Witness ==
    /\ AddCalledAgain
    /\ Deref(lastAdd).c = Container("abc123", "10.0.0.9", 8125)
    /\ Deref(lastAdd).before["abc123"].StatsdHost = StatsdHost
    /\ Deref(lastAdd).before["abc123"].StatsdPort \in EphemeralPorts
    /\ Cardinality(DOMAIN containersStatsd) = 2
    /\ Deref(lastAdd).returned = Some(containersStatsd["abc123"])

\* no two registered containers have the same port
PortsUnique ==
    \A a, b \in DOMAIN containersStatsd :
        a # b => containersStatsd[a].StatsdPort # containersStatsd[b].StatsdPort

\* the last AddContainer asked for a port that a container of another id held
PortHeldByOther(l) ==
    /\ l.c.StatsdPort # 0
    /\ \E id \in DOMAIN l.before \ { l.c.Id } : l.before[id].StatsdPort = l.c.StatsdPort

KeepingResponses == Responses \ { OkResponse(StateEmpty) }

\* the decoded answers: a state with the task of abc123
GoodResponses == { OkResponse(StateABC), OkResponse(StateAll) }

\* the Apply calls that carry a record tagged abc123
InputsABC == { in \in Inputs : \E i \in DOMAIN in : in[i] = M_abc }

LiveNext ==
    \/ \E in \in Inputs : ApplyBegin(in) /\ UNCHANGED notMeta
    \/ ApplyRecord /\ UNCHANGED notMeta
    \/ ApplyEnd /\ UNCHANGED notMeta
    \/ \E g \in G : RefreshAbsorbed(g) /\ UNCHANGED notMeta
    \/ \E g \in G : RefreshStart(g) /\ UNCHANGED notMeta
    \/ \E g \in G : RefreshClientError(g) /\ UNCHANGED notMeta
    \/ \E g \in G, resp \in KeepingResponses : RefreshReceive(g, resp) /\ UNCHANGED notMeta
    \/ \E g \in G : CacheLock(g) /\ UNCHANGED notMeta
    \/ \E g \in G : CacheTask(g) /\ UNCHANGED notMeta
    \/ \E g \in G : CacheSwap(g) /\ UNCHANGED notMeta
    \/ \E g \in G : CacheUnlock(g) /\ UNCHANGED notMeta
    \/ TimerReset /\ UNCHANGED notMeta
    \/ Tick /\ UNCHANGED notMeta

\* the steps a refresh goroutine takes on its own
GoroutineStep(g) ==
    \/ RefreshAbsorbed(g)
    \/ CacheLock(g)
    \/ CacheTask(g)
    \/ CacheSwap(g)
    \/ CacheUnlock(g)

ApplyStep == ApplyRecord \/ ApplyEnd
Answered(g) == \E resp \in KeepingResponses : RefreshReceive(g, resp)
AnsweredWell == \E g \in G, resp \in GoodResponses : RefreshReceive(g, resp)
ArrivalABC == \E in \in InputsABC : ApplyBegin(in)

LiveFairness ==
    /\ WF_vars(ApplyStep /\ UNCHANGED notMeta)
    /\ \A g \in G : WF_vars(GoroutineStep(g) /\ UNCHANGED notMeta)
    /\ \A g \in G : SF_vars(RefreshStart(g) /\ UNCHANGED notMeta)
    /\ \A g \in G : WF_vars(Answered(g) /\ UNCHANGED notMeta)
    /\ SF_vars(AnsweredWell /\ UNCHANGED notMeta)
    /\ WF_vars(TimerReset /\ UNCHANGED notMeta)
    /\ []<><< Tick /\ UNCHANGED notMeta >>_vars
    /\ SF_vars(ArrivalABC /\ UNCHANGED notMeta)

\* the shortest cooldown and the shortest query deadline
LiveInit ==
    /\ Init
    /\ rateLimit = 1
    /\ timeout = 1

SpecLive == LiveInit /\ [][LiveNext]_vars /\ LiveFairness

\* Apply has enriched record i of its call, a record tagged abc123
EnrichedAt(i) ==
    /\ i < applyIdx
    /\ applyIn[i] = M_abc
    /\ K_task_name \in DOMAIN applyOut[i].tags

EnrichedABC == \E i \in DOMAIN applyIn : EnrichedAt(i)

\* Apply has found abc123 missing from the cache
UnknownABC == "abc123" \in unknown

\* C22: while abc123 stays in the scheduler state, the agent keeps answering
\* with decoded states and records tagged abc123 keep arriving, an Apply call
\* eventually enriches a record tagged abc123, and every Apply call that
\* found abc123 missing from the cache is followed by one that enriches it.
C22_EventuallyEnriched ==
    /\ <>EnrichedABC
    /\ UnknownABC ~> EnrichedABC

\* a record tagged abc123 is enriched after a query failed and a later one
\* filled the cache
C22_Witness ==
    /\ EnrichedABC
    /\ lastOutcome = "cached"
    /\ lastGap > 0

(***************************************************************************)
(* Triggers and the cooldown.                                              *)
(***************************************************************************)
\* goroutine g, started by a trigger, reaches the gate in this step
ReachesGate(g) == gr[g].pc = "spawned" /\ gr'[g] # gr[g]

\* goroutine g sends the GetState query in this step
SendsQuery(g) == gr[g].pc # "waiting" /\ gr'[g].pc = "waiting"

\* nothing of the trigger of g is left: the goroutine is over, and the gate,
\* the sleeper, the client and the other goroutines are as before
Dropped(g) ==
    /\ gr' = [gr EXCEPT ![g] = Idle]
    /\ UNCHANGED << onceDone, onceLocked, timer, client, containers, mu, sinceQuery >>

\* the cooldown ends in this step: once.Reset() arms the gate
CooldownEnds == onceDone /\ ~onceDone'

\* a trigger that reaches the closed gate is dropped
ClosedGateDrops == \A g \in G : ReachesGate(g) /\ onceDone => Dropped(g)

\* the end of the cooldown starts no refresh and sends no query
ResetRunsNothing == CooldownEnds => gr' = gr /\ sinceQuery' = sinceQuery

\* a query is sent only by a trigger that reaches the armed gate
QueryByLaterTrigger == \A g \in G : SendsQuery(g) => ReachesGate(g) /\ ~onceDone /\ timer = -1

\* no trigger is kept while the cooldown runs: time advances only when no
\* goroutine stands before the gate
NoneQueued == timer' # timer /\ timer > 0 => \A g \in G : gr[g].pc # "spawned"

FoundOrUntagged(i) ==
    K_container_id \in DOMAIN applyIn[i].tags => K_task_name \in DOMAIN applyOut[i].tags

NoneMissing == \A i \in DOMAIN applyIn : FoundOrUntagged(i)

\* record i is returned: same name, and every tag key of the input
Returned(i) ==
    /\ applyOut[i].name = applyIn[i].name
    /\ DOMAIN applyIn[i].tags \subseteq DOMAIN applyOut[i].tags

AllReturned ==
    /\ Len(applyOut) = Len(applyIn)
    /\ \A i \in DOMAIN applyIn : Returned(i)

\* a step of the Apply call
ApplyActs == applyVars' # applyVars

\* the step in which Apply returns
ApplyReturns == applyPc = "loop" /\ applyPc' = "returned"

\* Apply itself sends no query and leaves the map, the gate and the sleeper alone
ApplyTouchesNothing ==
    ApplyActs => UNCHANGED << containers, mu, client, onceDone, onceLocked, timer, sinceQuery, sinceRun >>

\* a call that missed no container id starts no refresh goroutine
NoRefreshStarted == ApplyReturns /\ NoneMissing => gr' = gr

\* C24: an Apply call in which every record with a container_id tag was found
\* in the cache (calls without records and records without the tag included)
\* starts no refresh goroutine, sends no GetState query, leaves the container
\* map unchanged and returns every input record.
C24_NothingMissingNothingDone ==
    /\ [][ApplyTouchesNothing /\ NoRefreshStarted]_vars
    /\ [](applyPc = "returned" => AllReturned)

\* a call with an untagged record and a cached abc123 has returned both
\* records and started no goroutine
C24_Witness ==
    /\ applyPc = "returned"
    /\ applyIn = << M_plain, M_abc >>
    /\ NoneMissing
    /\ \A g \in G : gr[g] = Idle

(***************************************************************************)
(* The container map after a refresh.                                      *)
(***************************************************************************)
\* the container id of task t: that of its first status that carries one
HasResolvableID(t) == \E i \in DOMAIN t.statuses : CarriesID(t.statuses[i])
ResolvedID(t) == FirstID(t).value

\* the launched tasks of state gs that have a container id
Resolvable(gs) == { t \in Range(launchedTasks(gs)) : HasResolvableID(t) /\ ResolvedID(t) # "" }
ResolvableIDs(gs) == { ResolvedID(t) : t \in Resolvable(gs) }

\* the entry of cid describes a launched task of gs with that container id
EntryOfTask(m, cid, gs) ==
    /\ m[cid].containerID = cid
    /\ \E t \in Resolvable(gs) : ResolvedID(t) = cid /\ m[cid].taskName = t.name

\* goroutine g has replaced the map and has not yet returned from cache()
JustCached(g) == gr[g].pc = "cacheUnlock"

MapOfState(g) ==
    /\ DOMAIN containers = ResolvableIDs(Deref(gr[g].gs))
    /\ \A cid \in DOMAIN containers : EntryOfTask(containers, cid, Deref(gr[g].gs))
    /\ \A cid \in DOMAIN gr[g].before :
          cid \notin ResolvableIDs(Deref(gr[g].gs)) => cid \notin DOMAIN containers
    /\ launchedTasks(Deref(gr[g].gs)) = <<>> => containers = EmptyMap

\* C25: when cache() has replaced the map, the map has one entry for each
\* container id of a launched task of the fetched state, every entry
\* describes such a task, entries of the previous map whose container is not
\* in the state are gone, and a state without tasks leaves the map empty.
C25_MapIsFetchedState == \A g \in G : JustCached(g) => MapOfState(g)

\* StateABC replaces a map that held def456: only abc123 is left
C25_Witness ==
    \E g \in G :
        /\ JustCached(g)
        /\ Deref(gr[g].gs) = StateABC
        /\ "def456" \in DOMAIN gr[g].before
        /\ DOMAIN containers = { "abc123" }

\* a state without tasks replaces a map that held abc123
C25_WitnessEmpty ==
    \E g \in G :
        /\ JustCached(g)
        /\ Deref(gr[g].gs) = StateEmpty
        /\ "abc123" \in DOMAIN gr[g].before
        /\ containers = EmptyMap

(***************************************************************************)
(* The records of one Apply call and the cache they are looked up in.      *)
(***************************************************************************)
\* Apply has looked up record i of the running or finished call
LookedUp(i) == i \in DOMAIN applyIn /\ i < applyIdx /\ K_container_id \in DOMAIN applyIn[i].tags

\* the lookup of record i found its container: the tags of the entry were added
FoundInCache(i) == applyOut[i] # applyIn[i]

SameContainer(i, j) == applyIn[i].tags[K_container_id] = applyIn[j].tags[K_container_id]

\* C26: two records of one Apply call with the same container_id are both
\* enriched or both left as they came.
C26_OneSnapshotPerCall ==
    \A i, j \in DOMAIN applyIn :
        LookedUp(i) /\ LookedUp(j) /\ SameContainer(i, j) => (FoundInCache(i) <=> FoundInCache(j))

(***************************************************************************)
(* Discovery over several tasks, one of which has an endpoint that fails.  *)
(***************************************************************************)
DiscoveredAll == ~IsNil(applied) /\ Deref(applied).op = "getMesosTaskPrometheusURLs/tasks"

\* the target of endpoint, tagged with the container id of task t, is in the result
TargetOf(a, t, endpoint) == EmittedWith(a, endpoint, { OwnID(t) })

\* every labelled port of t that has a hostname is a target
PortTargets(a, t) ==
    \A i \in Emitting(t) :
        TargetOf(a, t, EndpointOfPort(DeclaredPorts(t)[i], t, DeclaredPorts(t)[i].labels))

\* the port at the index of the task label, if it has a hostname, is a target
IndexTarget(a, t) ==
    TaskLabelled(t) /\ IndexLabel(t) # <<>> /\ IndexInRange(t) /\ Reachable(PortAtIndex(t), t) =>
        TargetOf(a, t, EndpointOfPort(PortAtIndex(t), t, t.labels))

\* the call returned, and the endpoints of the tasks that did not fail are targets
OthersProduced(a) ==
    /\ ~a.panicked
    /\ \A k \in DOMAIN a.tasks : PortTargets(a, a.tasks[k]) /\ IndexTarget(a, a.tasks[k])

\* C27: when the discovery of one endpoint fails (no address for a port of
\* the container, an index label that is no number or out of range, a name
\* label no port has), the call returns and every other endpoint of the same
\* task and of the other tasks is among the targets.
C27_FailureSkipsOneEndpoint == DiscoveredAll => OthersProduced(Deref(applied))

(***************************************************************************)
(* The tag of discovery and the key of the metadata cache.                 *)
(***************************************************************************)
Correlated == ~IsNil(applied) /\ Deref(applied).op = "makeURLAndAddress/cache"

\* Apply finds a record with the tag of discovery in the refreshed map, under
\* an entry of that container
FoundInFreshCache(a) ==
    /\ a.tag \in DOMAIN a.cache
    /\ a.cache[a.tag].containerID = a.tag

CarryingStatuses(st) == { i \in DOMAIN st : CarriesID(st[i]) }
FirstCarried(st) ==
    Deref(Deref(st[CHOOSE i \in CarryingStatuses(st) :
                       \A j \in CarryingStatuses(st) : i <= j].containerStatus).containerID)

Stripped(k) == fetchPc[k] = "done" /\ k \notin accumulator.errors

\* the URL objects that the fetch of target k has written, or may have
\* written: u.URL for the path, u.OriginalURL for the user
WrittenBy(k) ==
    (IF fetchPc[k] # "start" THEN { allURLs[k].URL } ELSE {})
    \cup (IF Stripped(k) THEN { allURLs[k].OriginalURL } ELSE {})

\* C29: no URL object is written by the fetches of two targets of one cycle.
C29_NoSharedURLWritten ==
    Fetching => \A k1, k2 \in DOMAIN fetchPc : k1 # k2 => WrittenBy(k1) \cap WrittenBy(k2) = {}

(***************************************************************************)
(* NginxVTSFilter.Apply on a metric of a configured measurement.           *)
(***************************************************************************)
Filtered == ~IsNil(applied) /\ Deref(applied).op = "NginxVTSFilter.Apply"

\* the conversion the metric meets, and whether its name is the measurement
ConvertOf(a) == a.conversions[Len(a.conversions)]
Measured(a) == a.in.name = ConvertOf(a).Measurement

\* the pieces of the value v between tag delimiters; v unwraps when every
\* piece is a key and a value around one key-value delimiter
PiecesOf(v, c) == strings_Split(v, tagDelimiterOf(c))
IsPair(piece, c) == Len(strings_Split(piece, kvDelimiterOf(c))) = 2
Unwraps(v, c) == \A i \in DOMAIN PiecesOf(v, c) : IsPair(PiecesOf(v, c)[i], c)
KeyAt(v, c, i) == strings_Split(PiecesOf(v, c)[i], kvDelimiterOf(c))[1]
ValueAt(v, c, i) == strings_Split(PiecesOf(v, c)[i], kvDelimiterOf(c))[2]
KeysOf(v, c) == { KeyAt(v, c, i) : i \in DOMAIN PiecesOf(v, c) }
LastOfKey(v, c, k) ==
    CHOOSE i \in DOMAIN PiecesOf(v, c) :
        KeyAt(v, c, i) = k /\ \A j \in DOMAIN PiecesOf(v, c) : KeyAt(v, c, j) = k => j <= i

\* the tag tags[k] is there and unwraps
TagUnwraps(tags, k, c) == k \in DOMAIN tags /\ Unwraps(tags[k], c)

\* the pairs of the value v are tags of the metric
PairsAdded(tags, v, c) ==
    \A k \in KeysOf(v, c) : k \in DOMAIN tags /\ tags[k] = ValueAt(v, c, LastOfKey(v, c, k))

\* the tag k is as it was
TagKept(a, k) ==
    /\ k \in DOMAIN a.in.tags <=> k \in DOMAIN a.out.tags
    /\ k \in DOMAIN a.in.tags => a.out.tags[k] = a.in.tags[k]

\* the name with its second and third segment replaced
SegmentsOf(name) == strings_Split(name, <<"_">>)
Rewritten(name, k2, k3) ==
    strings_Join([i \in DOMAIN SegmentsOf(name) |->
                    IF i = 2 THEN k2 ELSE IF i = 3 THEN k3 ELSE SegmentsOf(name)[i]], <<"_">>)

FilterFails(a) == ~TagUnwraps(a.in.tags, K_filter, ConvertOf(a))
FilterNameFails(a) == ~TagUnwraps(a.in.tags, K_filter_name, ConvertOf(a))

OnlyFilterReplaced(a) ==
    /\ PairsAdded(a.out.tags, a.in.tags[K_filter], ConvertOf(a))
    /\ K_filter \notin DOMAIN a.out.tags
    /\ TagKept(a, K_filter_name)
    /\ a.out.name = a.in.name

BothReplaced(a) ==
    /\ PairsAdded(a.out.tags, a.in.tags[K_filter], ConvertOf(a))
    /\ PairsAdded(a.out.tags, a.in.tags[K_filter_name], ConvertOf(a))
    /\ K_filter \notin DOMAIN a.out.tags
    /\ K_filter_name \notin DOMAIN a.out.tags
    /\ Len(SegmentsOf(a.in.name)) >= 3 =>
          a.out.name = Rewritten(a.in.name, KeyAt(a.in.tags[K_filter], ConvertOf(a), 1),
                                 KeyAt(a.in.tags[K_filter_name], ConvertOf(a), 1))

\* C30: on a metric of a configured measurement, a filter tag that is missing
\* or does not unwrap leaves tags and name as they were; a filter that
\* unwraps with a filter_name that is missing or does not unwrap adds the
\* pairs of filter and removes filter, filter_name and the name staying as
\* they were; when both unwrap both tags are replaced by their pairs and the
\* second and third segment of the name become the first key of filter and
\* the first key of filter_name.
C30_ThreeCases ==
    Filtered /\ Measured(Deref(applied)) =>
        IF FilterFails(Deref(applied)) THEN Deref(applied).out = Deref(applied).in
        ELSE IF FilterNameFails(Deref(applied)) THEN OnlyFilterReplaced(Deref(applied))
        ELSE BothReplaced(Deref(applied))

\* the tags with the pairs of v set, and without the tag k
WithPairs(tags, v, c) ==
    [k \in DOMAIN tags \cup KeysOf(v, c) |->
        IF k \in KeysOf(v, c) THEN ValueAt(v, c, LastOfKey(v, c, k)) ELSE tags[k]]
WithoutTag(tags, k) == [x \in DOMAIN tags \ { k } |-> tags[x]]

\* the tags after the first step: the pairs of filter set, then filter removed
AfterFilterTags(a) ==
    WithoutTag(WithPairs(a.in.tags, a.in.tags[K_filter], ConvertOf(a)), K_filter)

\* the tags after the second step, on the filter_name tag the first step left
AfterBothTags(a) ==
    WithoutTag(WithPairs(AfterFilterTags(a), AfterFilterTags(a)[K_filter_name], ConvertOf(a)),
               K_filter_name)

NameAfterBoth(a) ==
    IF Len(SegmentsOf(a.in.name)) >= 3
    THEN Rewritten(a.in.name, KeyAt(a.in.tags[K_filter], ConvertOf(a), 1),
                   KeyAt(AfterFilterTags(a)[K_filter_name], ConvertOf(a), 1))
    ELSE a.in.name

\* C30, as the code has it: the second step looks at the filter_name tag as
\* the first step left it, a pair of key filter or filter_name is removed
\* with the tag of that name, and a name of fewer than three segments stays;
\* a metric of another measurement is left as it was.
C30_StepByStep ==
    Filtered =>
        IF ~Measured(Deref(applied)) \/ FilterFails(Deref(applied))
        THEN Deref(applied).out = Deref(applied).in
        ELSE IF ~TagUnwraps(AfterFilterTags(Deref(applied)), K_filter_name, ConvertOf(Deref(applied)))
        THEN Deref(applied).out = Metric(Deref(applied).in.name, AfterFilterTags(Deref(applied)))
        ELSE Deref(applied).out = Metric(NameAfterBoth(Deref(applied)), AfterBothTags(Deref(applied)))

\* filter u=B,s=4 and filter_name c=M on n_v_f_t: the tags u, s and c, and
\* the name n_u_c_t
C30_Witness ==
    /\ Filtered
    /\ Deref(applied).conversions = << C_default >>
    /\ Deref(applied).in = Metric(V_name, (K_host :> "h1") @@ (K_filter :> <<"u","=","B",",","s","=","4">>) @@ (K_filter_name :> <<"c","=","M">>))
    /\ Deref(applied).out = Metric(<<"n","_","u","_","c","_","t">>, (K_host :> "h1") @@ (<<"u">> :> <<"B">>) @@ (<<"s">> :> <<"4">>) @@ (<<"c">> :> <<"M">>))
====
